---- MODULE Spec2Model ----
(***************************************************************************)
(* Verification model of the sudoku core: the region validator, the        *)
(* backtracking solver (heuristic and simple strategies) and the puzzle    *)
(* generator.                                                              *)
(*                                                                         *)
(* A grid is a function from cell positions <<row, col>> (0-based, as in   *)
(* the source) to cell records [value, isPuzzle, notes].  A bitmask is     *)
(* modelled as the set of its set bit positions.                           *)
(***************************************************************************)
EXTENDS Integers, Sequences, FiniteSets, TLC

VARIABLES
    config,      \* SudokuConfig handed to solveSudoku / generateSudoku
    grid,        \* the caller's grid handed to solveSudoku
    options,     \* SolverOptions after defaulting
    phase,       \* "idle" | "search" | "done" : position inside solveSudoku
    context,     \* BacktrackingContext: solutions, interrupted, recursionCounter, stats
    stack,       \* activation records of the recursive search, innermost last
    ret,         \* value just returned by the innermost finished call: "none" | "true" | "false"
    expired,     \* Date.now() > timeoutTimestamp
    result,      \* SolverResult
    hist,        \* observation record: callback invocations, stop and deadline events
    prevRun,     \* solutions of an earlier solveSudoku call on the same input
    gen,         \* state of generateSudoku
    calc,        \* last call of a pure query function: its arguments and its answer
    engine,      \* SudokuEngineImpl: config, puzzle, currentGrid and the last call made
    history,     \* HistoryManagerImpl: past, future, maxHistorySize
    cache        \* CacheManagerImpl: the entries of its Map

vars == <<config, grid, options, phase, context, stack, ret, expired, result,
          hist, prevRun, gen, calc, engine, history, cache>>

solverVars == <<grid, options, phase, context, stack, ret, expired, result,
                hist, prevRun>>

(***************************************************************************)
(* Bounds of the model                                                     *)
(***************************************************************************)
MaxSolutionsBound == 3

(***************************************************************************)
(* Program constants                                                       *)
(***************************************************************************)
TIMEOUT_CHECK_INTERVAL == 100

(***************************************************************************)
(* Generic helpers                                                         *)
(***************************************************************************)
Range(s) == {s[i] : i \in DOMAIN s}

Positions(size) == (0 .. size - 1) \X (0 .. size - 1)

RowMajor(size) == [i \in 1 .. size * size |-> <<(i - 1) \div size, (i - 1) % size>>]

RECURSIVE SeqSum(_)
SeqSum(s) == IF s = <<>> THEN 0 ELSE Head(s) + SeqSum(Tail(s))

RECURSIVE FilterSeq(_, _)
FilterSeq(s, keep) ==
    IF s = <<>> THEN <<>>
    ELSE IF Head(s) \in keep THEN <<Head(s)>> \o FilterSeq(Tail(s), keep)
    ELSE FilterSeq(Tail(s), keep)

(***************************************************************************)
(* Grid creation and access                                                *)
(***************************************************************************)
createEmptyCell == [value |-> 0, isPuzzle |-> FALSE, notes |-> {}]

createEmptyGrid(size) == [p \in Positions(size) |-> createEmptyCell]

createGridFromValues(values) ==
    [p \in DOMAIN values |->
        [value |-> values[p], isPuzzle |-> values[p] # 0, notes |-> {}]]

cloneGrid(g) ==
    [p \in DOMAIN g |->
        [value |-> g[p].value, isPuzzle |-> g[p].isPuzzle,
         notes |-> {n \in g[p].notes : TRUE}]]

isValidPosition(g, row, col) == <<row, col>> \in DOMAIN g

\* A faulty setCellValue that writes the cell at the transposed position.
setCellValueTransposed(g, row, col, value) ==
    IF ~isValidPosition(g, row, col) THEN g
    ELSE IF g[<<row, col>>].isPuzzle THEN g
    ELSE [p \in DOMAIN g |->
            IF p = <<col, row>>
            THEN [g[p] EXCEPT !.value = value, !.isPuzzle = FALSE, !.notes = {}]
            ELSE g[p]]

setCellValue(g, row, col, value) ==
    IF ~isValidPosition(g, row, col) THEN g
    ELSE IF g[<<row, col>>].isPuzzle THEN g
    ELSE [p \in DOMAIN g |->
            IF p = <<row, col>>
            THEN [g[p] EXCEPT !.value = value, !.isPuzzle = FALSE, !.notes = {}]
            ELSE g[p]]

toggleCellNote(g, row, col, digit) ==
    IF ~isValidPosition(g, row, col) THEN g
    ELSE IF g[<<row, col>>].value # 0 \/ g[<<row, col>>].isPuzzle THEN g
    ELSE [p \in DOMAIN g |->
            IF p = <<row, col>>
            THEN [g[p] EXCEPT !.notes = IF digit \in @ THEN @ \ {digit}
                                                      ELSE @ \cup {digit}]
            ELSE g[p]]

GridSize(g) == CHOOSE n \in 0 .. 31 : DOMAIN g = Positions(n)

(***************************************************************************)
(* Regions                                                                 *)
(***************************************************************************)
generateRowRegions(size) ==
    [row \in 1 .. size |->
        [id |-> <<"row", row - 1>>, type |-> "row",
         cells |-> [c \in 1 .. size |-> <<row - 1, c - 1>>], hasSum |-> FALSE, sum |-> 0]]

generateColumnRegions(size) ==
    [col \in 1 .. size |->
        [id |-> <<"column", col - 1>>, type |-> "column",
         cells |-> [r \in 1 .. size |-> <<r - 1, col - 1>>], hasSum |-> FALSE, sum |-> 0]]

generateBlockRegions(size, blockWidth, blockHeight) ==
    LET blocksPerRow == size \div blockWidth
    IN [b \in 1 .. size |->
         LET startRow == ((b - 1) \div blocksPerRow) * blockHeight
             startCol == ((b - 1) % blocksPerRow) * blockWidth
         IN [id |-> <<"block", b - 1>>, type |-> "block",
             cells |-> [k \in 1 .. blockWidth * blockHeight |->
                          <<startRow + ((k - 1) \div blockWidth),
                            startCol + ((k - 1) % blockWidth)>>],
             hasSum |-> FALSE, sum |-> 0]]

DiagonalGetRegions(size) ==
    << [id |-> <<"diagonal", 0>>, type |-> "diagonal",
        cells |-> [i \in 1 .. size |-> <<i - 1, i - 1>>], hasSum |-> FALSE, sum |-> 0],
       [id |-> <<"diagonal", 1>>, type |-> "diagonal",
        cells |-> [i \in 1 .. size |-> <<i - 1, size - i>>], hasSum |-> FALSE, sum |-> 0] >>

Cage(n, cells, sum) ==
    [id |-> <<"cage", n>>, type |-> "cage", cells |-> cells, hasSum |-> TRUE, sum |-> sum]

(***************************************************************************)
(* Validation                                                              *)
(***************************************************************************)
\* grid[row][col].value raises a TypeError when a coordinate of the list lies
\* outside the grid: grid[row] or grid[row][col] is then undefined.
cellAccessThrows(g, cellCoords) == \E i \in DOMAIN cellCoords : cellCoords[i] \notin DOMAIN g

\* validateAllRegions visits every cell of every region, so it raises that
\* error as soon as one region holds such a coordinate.
validateAllRegionsThrows(g, regions) ==
    \E i \in DOMAIN regions : cellAccessThrows(g, regions[i].cells)

TypeErrorMessage == "Cannot read properties of undefined"

valueToBitmask(value) == IF value <= 0 \/ value > 31 THEN {} ELSE {value}

checkDuplicatesBitmask(g, cellCoords) ==
    LET filled == {i \in DOMAIN cellCoords : g[cellCoords[i]].value # 0}
        dupIdx == {i \in filled :
                     \E j \in filled : j # i /\ g[cellCoords[j]].value = g[cellCoords[i]].value}
        srcIdx == {i \in dupIdx :
                     \A j \in dupIdx :
                        g[cellCoords[j]].value = g[cellCoords[i]].value => i <= j}
    IN [duplicates |-> {cellCoords[i] : i \in dupIdx},
        sources |-> {cellCoords[i] : i \in srcIdx}]

\* A faulty validateRegionBitmask that never reports a duplicate.
validateRegionBitmaskBlind(g, region) ==
    [isValid |-> TRUE, errorCells |-> {}, conflictSources |-> {}]

validateRegionBitmask(g, region) ==
    LET d == checkDuplicatesBitmask(g, region.cells)
    IN [isValid |-> d.duplicates = {}, errorCells |-> d.duplicates,
        conflictSources |-> d.sources]

validateSum(g, region) ==
    IF ~region.hasSum THEN [isValid |-> TRUE, errorCells |-> {}, conflictSources |-> {}]
    ELSE IF \E i \in DOMAIN region.cells : g[region.cells[i]].value = 0
         THEN [isValid |-> TRUE, errorCells |-> {}, conflictSources |-> {}]
    ELSE LET actualSum == SeqSum([i \in DOMAIN region.cells |-> g[region.cells[i]].value])
         IN [isValid |-> actualSum = region.sum,
             errorCells |-> IF actualSum = region.sum THEN {} ELSE Range(region.cells),
             conflictSources |-> {}]

mergeValidationResults(results) ==
    [isValid |-> \A i \in DOMAIN results : results[i].isValid,
     errorCells |-> UNION {results[i].errorCells : i \in DOMAIN results},
     conflictSources |-> UNION {results[i].conflictSources : i \in DOMAIN results}]

validateAllRegions(g, regions) ==
    mergeValidationResults(
        [i \in DOMAIN regions |->
            IF regions[i].hasSum
            THEN mergeValidationResults(<<validateRegionBitmask(g, regions[i]),
                                          validateSum(g, regions[i])>>)
            ELSE validateRegionBitmask(g, regions[i])])

isValidMoveBitmask(g, row, col, value, regions) ==
    IF value = 0 THEN TRUE
    ELSE \A i \in DOMAIN regions :
            (<<row, col>> \in Range(regions[i].cells)) =>
                LET usedValues ==
                        UNION {valueToBitmask(g[p].value) :
                                 p \in Range(regions[i].cells) \ {<<row, col>>}}
                IN usedValues \cap valueToBitmask(value) = {}

(***************************************************************************)
(* Candidates module and the exclusions of the variant rules               *)
(***************************************************************************)
\* A bit mask over the values 1..31 is modelled as the set of the values whose
\* bit is set (see valueToBitmask).  createFullBitmask throws outside 1..31;
\* every size used here is inside.
createFullBitmask(size) == 1 .. size

valuesFromBitmask(bitmask) == {value \in 1 .. 31 : value \in bitmask}

RegionsContaining(regions, row, col) ==
    {i \in DOMAIN regions : <<row, col>> \in Range(regions[i].cells)}

StandardGetExcludedCandidates(g, row, col, cfg) == {}

DiagonalGetExcludedCandidates(g, row, col, cfg) ==
    LET size == cfg.size
        isOnMainDiagonal == row = col
        isOnAntiDiagonal == row + col = size - 1
        main == IF isOnMainDiagonal
                THEN {g[<<i, i>>].value : i \in (0 .. size - 1) \ {row}} ELSE {}
        anti == IF isOnAntiDiagonal
                THEN {g[<<i, size - 1 - i>>].value : i \in (0 .. size - 1) \ {row}} ELSE {}
    IN {v \in main \cup anti : v > 0}

JigsawGetExcludedCandidates(g, row, col, cfg) ==
    LET jigsawRegions == {i \in RegionsContaining(cfg.regions, row, col) :
                             cfg.regions[i].type = "jigsaw"}
    IN {v \in UNION {{g[p].value : p \in Range(cfg.regions[i].cells) \ {<<row, col>>}} :
                       i \in jigsawRegions} : v > 0}

\* rule.getExcludedCandidates, dispatched on the rule's id.
getExcludedCandidates(rule, g, row, col, cfg) ==
    IF rule = "diagonal" THEN DiagonalGetExcludedCandidates(g, row, col, cfg)
    ELSE IF rule = "jigsaw" THEN JigsawGetExcludedCandidates(g, row, col, cfg)
    ELSE StandardGetExcludedCandidates(g, row, col, cfg)

getCandidatesForCellBitmask(g, row, col, cfg) ==
    IF g[<<row, col>>].value # 0 THEN {}
    ELSE LET usedValues(i) ==
                 UNION {valueToBitmask(g[p].value) :
                          p \in Range(cfg.regions[i].cells) \ {<<row, col>>}}
             afterRegions ==
                 createFullBitmask(cfg.size)
                   \ UNION {usedValues(i) : i \in RegionsContaining(cfg.regions, row, col)}
             excludedByRules ==
                 UNION {UNION {valueToBitmask(v) :
                                 v \in getExcludedCandidates(rule, g, row, col, cfg)} :
                          rule \in cfg.variantRules}
         IN valuesFromBitmask(afterRegions \ excludedByRules)

\* regionUsedValues is a Map keyed by region.id: when two regions carry one id
\* the mask stored last is the one both of them read.
regionUsedValues(g, cfg, id) ==
    LET last == CHOOSE i \in DOMAIN cfg.regions :
                    /\ cfg.regions[i].id = id
                    /\ \A j \in DOMAIN cfg.regions : cfg.regions[j].id = id => j <= i
    IN UNION {valueToBitmask(g[p].value) : p \in Range(cfg.regions[last].cells)}

\* A faulty batch computation that forgets the variant rules' exclusions.
getAllCandidatesBitmaskRegionsOnly(g, cfg) ==
    [p \in {q \in DOMAIN g : g[q].value = 0} |->
        valuesFromBitmask(
            createFullBitmask(cfg.size)
              \ UNION {regionUsedValues(g, cfg, cfg.regions[i].id) :
                         i \in RegionsContaining(cfg.regions, p[1], p[2])})]

\* The Map from "row,col" to the candidate set, as a function on the keys set.
getAllCandidatesBitmask(g, cfg) ==
    [p \in {q \in DOMAIN g : g[q].value = 0} |->
        LET afterRegions ==
                createFullBitmask(cfg.size)
                  \ UNION {regionUsedValues(g, cfg, cfg.regions[i].id) :
                             i \in RegionsContaining(cfg.regions, p[1], p[2])}
            excludedByRules ==
                UNION {UNION {valueToBitmask(v) :
                                v \in getExcludedCandidates(rule, g, p[1], p[2], cfg)} :
                         rule \in cfg.variantRules}
        IN valuesFromBitmask(afterRegions \ excludedByRules)]

(***************************************************************************)
(* Solver: candidates and cell selection                                   *)
(***************************************************************************)
\* context.getCandidatesForCell: a closure over the grid handed to solveSudoku
\* (g0), memoised per cell.  A JS Set iterates in insertion order, so the
\* candidates are kept as an ascending sequence.
getCandidatesForCell(g0, cfg, row, col) ==
    IF g0[<<row, col>>].value # 0 THEN <<>>
    ELSE FilterSeq([n \in 1 .. cfg.size |-> n],
                   {n \in 1 .. cfg.size : isValidMoveBitmask(g0, row, col, n, cfg.regions)})

IsEmptyCell(g, p) == g[p].value = 0

getAllEmptyCellsCandidates(g, cfg, g0) ==
    LET order == RowMajor(cfg.size)
        emptyIdx == FilterSeq([i \in DOMAIN order |-> i],
                              {i \in DOMAIN order : IsEmptyCell(g, order[i])})
    IN [k \in DOMAIN emptyIdx |->
          LET p == order[emptyIdx[k]]
              cands == getCandidatesForCell(g0, cfg, p[1], p[2])
          IN [row |-> p[1], col |-> p[2], candidates |-> cands, count |-> Len(cands)]]

calculateConstraintDegree(g, cfg, row, col) ==
    IF Len(cfg.regions) = 0 THEN 0
    ELSE Cardinality(UNION {
            {p \in Range(cfg.regions[i].cells) : p # <<row, col>> /\ g[p].value = 0} :
            i \in {j \in DOMAIN cfg.regions : <<row, col>> \in Range(cfg.regions[j].cells)}})

NullCell == [isNull |-> TRUE, row |-> 0, col |-> 0, candidates |-> <<>>]

Selected(c) == [isNull |-> FALSE, row |-> c.row, col |-> c.col, candidates |-> c.candidates]

\* Array.prototype.sort is stable: ties keep row-major order.
breakTiesByDegreeHeuristic(g, cfg, tiedCells) ==
    LET deg(k) == calculateConstraintDegree(g, cfg, tiedCells[k].row, tiedCells[k].col)
        best == CHOOSE k \in DOMAIN tiedCells :
                    /\ \A j \in DOMAIN tiedCells : deg(j) <= deg(k)
                    /\ \A j \in 1 .. k - 1 : deg(j) < deg(k)
    IN Selected(tiedCells[best])

selectCellWithMRV(g, cfg, g0) ==
    LET emptyCells == getAllEmptyCellsCandidates(g, cfg, g0)
    IN IF Len(emptyCells) = 0 THEN NullCell
       ELSE LET minCount == CHOOSE m \in {emptyCells[k].count : k \in DOMAIN emptyCells} :
                               \A k \in DOMAIN emptyCells : m <= emptyCells[k].count
                mrvIdx == FilterSeq([k \in DOMAIN emptyCells |-> k],
                                    {k \in DOMAIN emptyCells : emptyCells[k].count = minCount})
                mrvCells == [k \in DOMAIN mrvIdx |-> emptyCells[mrvIdx[k]]]
            IN IF minCount = 0 THEN Selected(mrvCells[1])
               ELSE IF Len(mrvCells) = 1 THEN Selected(mrvCells[1])
               ELSE breakTiesByDegreeHeuristic(g, cfg, mrvCells)

\* solveWithSimpleBacktracking: the first empty cell in row-major order.
FirstEmptyCell(g, cfg) ==
    LET order == RowMajor(cfg.size)
        emptyIdx == {i \in DOMAIN order : IsEmptyCell(g, order[i])}
    IN IF emptyIdx = {} THEN NullCell
       ELSE LET first == CHOOSE i \in emptyIdx : \A j \in emptyIdx : i <= j
            IN [isNull |-> FALSE, row |-> order[first][1], col |-> order[first][2],
                candidates |-> <<>>]

(***************************************************************************)
(* Solver: the recursive search as a state machine                         *)
(***************************************************************************)
createDefaultSolverStats == [assignments |-> 0, backtracks |-> 0, candidateCalculations |-> 0]

NewContext ==
    [solutions |-> <<>>, interrupted |-> FALSE, recursionCounter |-> 0,
     stats |-> createDefaultSolverStats]

NoResult ==
    [success |-> FALSE, solutions |-> <<>>, finishReason |-> "error", failReason |-> ""]

NoHist == [cbCalls |-> 0, stopped |-> FALSE, deadlineSeen |-> FALSE, raised |-> FALSE]

NoPrevRun == [has |-> FALSE, solutions |-> <<>>]

EntryFrame(g) == [pc |-> "entry", g |-> g, row |-> 0, col |-> 0, todo |-> <<>>]

Top == stack[Len(stack)]

Pop == SubSeq(stack, 1, Len(stack) - 1)

ReplaceTop(f) == [stack EXCEPT ![Len(stack)] = f]

\* The answers the progress callback may give: it is only consulted when the
\* caller supplied one.
CallbackAnswers == IF options.onProgress THEN BOOLEAN ELSE {TRUE}

AddStat(ctx, field, n) == [ctx EXCEPT !.stats[field] = @ + n]

\* The periodic deadline test at the head of both search functions.
DeadlineCheckFires(counter, opts, isExpired) ==
    opts.timeoutSet /\ counter % TIMEOUT_CHECK_INTERVAL = 0 /\ isExpired

\* A faulty test after the recursive call that forgets the interrupted flag.
StopAfterChildIgnoringInterrupt(ctx, opts) ==
    Len(ctx.solutions) >= opts.maxSolutions

\* The test made after each recursive call returns without an early success.
StopAfterChild(ctx, opts) ==
    ctx.interrupted \/ Len(ctx.solutions) >= opts.maxSolutions

\* What the heuristic search returns right after recording a solution that the
\* callback did not reject.
ReturnAfterSolution(ctx, opts) ==
    IF Len(ctx.solutions) >= opts.maxSolutions THEN TRUE ELSE ~opts.findAllSolutions

\* A faulty solveSudoku that skips the validation of the input grid.
InitialGridNeverRejected(g, cfg) == FALSE

InitialGridRejected(g, cfg) == ~validateAllRegions(g, cfg.regions).isValid

\* A faulty catch block that keeps the error to itself.
catchSolveErrorWithoutMessage(res, errorMessage) == [res EXCEPT !.finishReason = "error"]

\* The catch block of solveSudoku.
catchSolveError(res, errorMessage) ==
    [res EXCEPT !.finishReason = "error", !.failReason = errorMessage]

\* solveSudoku up to the call of the search function.
solveSudoku ==
    /\ phase = "idle"
    /\ IF validateAllRegionsThrows(grid, config.regions)
       THEN /\ result' = catchSolveError(NoResult, TypeErrorMessage)
            /\ phase' = "done"
            /\ stack' = <<>>
            /\ hist' = [hist EXCEPT !.raised = TRUE]
       ELSE IF InitialGridRejected(grid, config)
       THEN /\ result' = [NoResult EXCEPT !.finishReason = "no_solution",
                                           !.failReason = "initial grid invalid"]
            /\ phase' = "done"
            /\ stack' = <<>>
            /\ hist' = hist
       ELSE /\ result' = result
            /\ phase' = "search"
            /\ stack' = <<EntryFrame(cloneGrid(grid))>>
            /\ hist' = hist
    /\ context' = NewContext
    /\ ret' = "none"
    /\ UNCHANGED <<config, grid, options, expired, prevRun, gen, calc, engine, history, cache>>

\* Time passes the deadline while solveSudoku is running.
DeadlinePasses ==
    /\ phase \in {"idle", "search"}
    /\ options.timeoutSet
    /\ ~expired
    /\ expired' = TRUE
    /\ UNCHANGED <<config, grid, options, phase, context, stack, ret, result, hist,
                   prevRun, gen, calc, engine, history, cache>>

\* Entry of solveWithBacktracking up to its first return or to the candidate loop.
solveWithBacktracking ==
    /\ phase = "search" /\ options.strategy = "fastest"
    /\ stack # <<>> /\ ret = "none" /\ Top.pc = "entry"
    /\ \E cont \in CallbackAnswers :
        LET ctx1 == [context EXCEPT !.recursionCounter = @ + 1]
            nextCell == selectCellWithMRV(Top.g, config, grid)
            nEmpty == Cardinality({p \in DOMAIN Top.g : IsEmptyCell(Top.g, p)})
            ctx2 == AddStat(ctx1, "candidateCalculations", nEmpty)
            ctx3 == [ctx2 EXCEPT !.solutions = Append(@, cloneGrid(Top.g))]
        IN IF DeadlineCheckFires(ctx1.recursionCounter, options, expired)
           THEN /\ context' = ctx1 /\ stack' = Pop /\ ret' = "false"
                /\ hist' = [hist EXCEPT !.deadlineSeen = TRUE]
           ELSE IF ctx1.interrupted
           THEN /\ context' = ctx1 /\ stack' = Pop /\ ret' = "false" /\ hist' = hist
           ELSE IF nextCell.isNull
           THEN IF ~validateAllRegions(Top.g, config.regions).isValid
                THEN /\ context' = AddStat(ctx2, "backtracks", 1)
                     /\ stack' = Pop /\ ret' = "false" /\ hist' = hist
                ELSE IF options.onProgress /\ ~cont
                THEN /\ context' = [ctx3 EXCEPT !.interrupted = TRUE]
                     /\ stack' = Pop /\ ret' = "false"
                     /\ hist' = [hist EXCEPT !.cbCalls = @ + 1, !.stopped = TRUE]
                ELSE /\ context' = ctx3
                     /\ stack' = Pop
                     /\ ret' = IF ReturnAfterSolution(ctx3, options) THEN "true" ELSE "false"
                     /\ hist' = IF options.onProgress
                                THEN [hist EXCEPT !.cbCalls = @ + 1] ELSE hist
           ELSE IF Len(nextCell.candidates) = 0
           THEN /\ context' = AddStat(ctx2, "backtracks", 1)
                /\ stack' = Pop /\ ret' = "false" /\ hist' = hist
           ELSE /\ context' = ctx2
                /\ stack' = ReplaceTop([Top EXCEPT !.pc = "loop", !.row = nextCell.row,
                                           !.col = nextCell.col,
                                           !.todo = nextCell.candidates])
                /\ ret' = "none" /\ hist' = hist
    /\ UNCHANGED <<config, grid, options, phase, expired, result, prevRun, gen, calc, engine, history, cache>>

\* One iteration of the candidate loop of solveWithBacktracking, up to the
\* recursive call, or the fall-through after the last candidate.
TryCandidate ==
    /\ phase = "search" /\ options.strategy = "fastest"
    /\ stack # <<>> /\ ret = "none" /\ Top.pc = "loop"
    /\ \E cont \in CallbackAnswers :
        IF Top.todo = <<>>
        THEN /\ context' = AddStat(context, "backtracks", 1)
             /\ stack' = Pop /\ ret' = "false" /\ hist' = hist
        ELSE LET value == Head(Top.todo)
                 newGrid == setCellValue(Top.g, Top.row, Top.col, value)
                 ctx1 == AddStat(context, "assignments", 1)
             IN IF options.onProgress /\ ~cont
                THEN /\ context' = [ctx1 EXCEPT !.interrupted = TRUE]
                     /\ stack' = Pop /\ ret' = "false"
                     /\ hist' = [hist EXCEPT !.cbCalls = @ + 1, !.stopped = TRUE]
                ELSE /\ context' = ctx1
                     /\ stack' = Append(ReplaceTop([Top EXCEPT !.pc = "await",
                                                       !.todo = Tail(@)]),
                                        EntryFrame(newGrid))
                     /\ ret' = "none"
                     /\ hist' = IF options.onProgress
                                THEN [hist EXCEPT !.cbCalls = @ + 1] ELSE hist
    /\ UNCHANGED <<config, grid, options, phase, expired, result, prevRun, gen, calc, engine, history, cache>>

\* solveWithBacktracking after its recursive call has returned.
AfterRecursiveCall ==
    /\ phase = "search" /\ options.strategy = "fastest"
    /\ stack # <<>> /\ ret # "none" /\ Top.pc = "await"
    /\ IF ret = "true" /\ ~options.findAllSolutions
       THEN stack' = Pop /\ ret' = "true"
       ELSE IF StopAfterChild(context, options)
       THEN stack' = Pop /\ ret' = "false"
       ELSE stack' = ReplaceTop([Top EXCEPT !.pc = "loop"]) /\ ret' = "none"
    /\ UNCHANGED <<config, grid, options, phase, context, expired, result, hist,
                   prevRun, gen, calc, engine, history, cache>>

\* Entry of solveWithSimpleBacktracking up to its first return or to the loop.
solveWithSimpleBacktracking ==
    /\ phase = "search" /\ options.strategy = "humanlike"
    /\ stack # <<>> /\ ret = "none" /\ Top.pc = "entry"
    /\ \E cont \in CallbackAnswers :
        LET ctx1 == [context EXCEPT !.recursionCounter = @ + 1]
            cell == FirstEmptyCell(Top.g, config)
            ctx3 == [ctx1 EXCEPT !.solutions = Append(@, cloneGrid(Top.g))]
        IN IF DeadlineCheckFires(ctx1.recursionCounter, options, expired)
           THEN /\ context' = ctx1 /\ stack' = Pop /\ ret' = "false"
                /\ hist' = [hist EXCEPT !.deadlineSeen = TRUE]
           ELSE IF ctx1.interrupted
           THEN /\ context' = ctx1 /\ stack' = Pop /\ ret' = "false" /\ hist' = hist
           ELSE IF ~validateAllRegions(Top.g, config.regions).isValid
           THEN /\ context' = AddStat(ctx1, "backtracks", 1)
                /\ stack' = Pop /\ ret' = "false" /\ hist' = hist
           ELSE IF cell.isNull
           THEN IF options.onProgress /\ ~cont
                THEN /\ context' = [ctx3 EXCEPT !.interrupted = TRUE]
                     /\ stack' = Pop /\ ret' = "false"
                     /\ hist' = [hist EXCEPT !.cbCalls = @ + 1, !.stopped = TRUE]
                ELSE /\ context' = ctx3
                     /\ stack' = Pop
                     /\ ret' = IF ~options.findAllSolutions THEN "true" ELSE "false"
                     /\ hist' = IF options.onProgress
                                THEN [hist EXCEPT !.cbCalls = @ + 1] ELSE hist
           ELSE /\ context' = ctx1
                /\ stack' = ReplaceTop([Top EXCEPT !.pc = "loop", !.row = cell.row,
                                           !.col = cell.col,
                                           !.todo = [n \in 1 .. config.size |-> n]])
                /\ ret' = "none" /\ hist' = hist
    /\ UNCHANGED <<config, grid, options, phase, expired, result, prevRun, gen, calc, engine, history, cache>>

\* One iteration of the loop over 1..size of solveWithSimpleBacktracking.
SimpleTryNumber ==
    /\ phase = "search" /\ options.strategy = "humanlike"
    /\ stack # <<>> /\ ret = "none" /\ Top.pc = "loop"
    /\ \E cont \in CallbackAnswers :
        IF Top.todo = <<>>
        THEN /\ context' = AddStat(context, "backtracks", 1)
             /\ stack' = Pop /\ ret' = "false" /\ hist' = hist
        ELSE LET num == Head(Top.todo)
                 candidates == getCandidatesForCell(grid, config, Top.row, Top.col)
                 ctx0 == AddStat(context, "candidateCalculations", 1)
                 newGrid == setCellValue(Top.g, Top.row, Top.col, num)
                 ctx1 == AddStat(ctx0, "assignments", 1)
             IN IF num \notin Range(candidates)
                THEN /\ context' = ctx0
                     /\ stack' = ReplaceTop([Top EXCEPT !.todo = Tail(@)])
                     /\ ret' = "none" /\ hist' = hist
                ELSE IF options.onProgress /\ ~cont
                THEN /\ context' = [ctx1 EXCEPT !.interrupted = TRUE]
                     /\ stack' = Pop /\ ret' = "false"
                     /\ hist' = [hist EXCEPT !.cbCalls = @ + 1, !.stopped = TRUE]
                ELSE /\ context' = ctx1
                     /\ stack' = Append(ReplaceTop([Top EXCEPT !.pc = "await",
                                                       !.todo = Tail(@)]),
                                        EntryFrame(newGrid))
                     /\ ret' = "none"
                     /\ hist' = IF options.onProgress
                                THEN [hist EXCEPT !.cbCalls = @ + 1] ELSE hist
    /\ UNCHANGED <<config, grid, options, phase, expired, result, prevRun, gen, calc, engine, history, cache>>

\* A faulty variant of the simple search that stops at the first solution
\* even when all solutions are wanted.
SimpleAfterRecursiveCallFirstOnly ==
    /\ phase = "search" /\ options.strategy = "humanlike"
    /\ stack # <<>> /\ ret # "none" /\ Top.pc = "await"
    /\ IF ret = "true"
       THEN stack' = Pop /\ ret' = "true"
       ELSE IF context.interrupted \/ Len(context.solutions) >= 1
       THEN stack' = Pop /\ ret' = "false"
       ELSE stack' = ReplaceTop([Top EXCEPT !.pc = "loop"]) /\ ret' = "none"
    /\ UNCHANGED <<config, grid, options, phase, context, expired, result, hist,
                   prevRun, gen, calc, engine, history, cache>>

\* solveWithSimpleBacktracking after its recursive call has returned.
SimpleAfterRecursiveCall ==
    /\ phase = "search" /\ options.strategy = "humanlike"
    /\ stack # <<>> /\ ret # "none" /\ Top.pc = "await"
    /\ IF ret = "true"
       THEN stack' = Pop /\ ret' = "true"
       ELSE IF StopAfterChild(context, options)
       THEN stack' = Pop /\ ret' = "false"
       ELSE stack' = ReplaceTop([Top EXCEPT !.pc = "loop"]) /\ ret' = "none"
    /\ UNCHANGED <<config, grid, options, phase, context, expired, result, hist,
                   prevRun, gen, calc, engine, history, cache>>

\* A faulty classification that tests the deadline before the interrupted flag.
ClassifyResultDeadlineFirst(ctx, cfg, opts, isExpired) ==
    LET n == Len(ctx.solutions)
        lastValid == validateAllRegions(ctx.solutions[n], cfg.regions).isValid
    IN IF opts.timeoutSet /\ isExpired
       THEN [success |-> IF n > 0 THEN lastValid ELSE FALSE, solutions |-> ctx.solutions,
             finishReason |-> "timeout",
             failReason |-> ""]
       ELSE IF ctx.interrupted
       THEN [success |-> n > 0, solutions |-> ctx.solutions,
             finishReason |-> IF n > 0 THEN "interrupted_with_solution" ELSE "interrupted",
             failReason |-> ""]
       ELSE IF n > 0
       THEN [success |-> TRUE, solutions |-> ctx.solutions, finishReason |-> "solved",
             failReason |-> ""]
       ELSE [success |-> FALSE, solutions |-> ctx.solutions, finishReason |-> "no_solution",
             failReason |-> ""]

\* A faulty classification that reports solved whenever a solution was
\* recorded and looks at the deadline only when there is none.
ClassifyResultSolutionsFirst(ctx, cfg, opts, isExpired) ==
    LET n == Len(ctx.solutions)
    IN IF ctx.interrupted
       THEN [success |-> n > 0, solutions |-> ctx.solutions,
             finishReason |-> IF n > 0 THEN "interrupted_with_solution" ELSE "interrupted",
             failReason |-> ""]
       ELSE IF n > 0
       THEN [success |-> TRUE, solutions |-> ctx.solutions, finishReason |-> "solved",
             failReason |-> ""]
       ELSE IF opts.timeoutSet /\ isExpired
       THEN [success |-> FALSE, solutions |-> ctx.solutions, finishReason |-> "timeout",
             failReason |-> ""]
       ELSE [success |-> FALSE, solutions |-> ctx.solutions, finishReason |-> "no_solution",
             failReason |-> ""]

\* Result classification of solveSudoku once the search function has returned.
ClassifyResult(ctx, cfg, opts, isExpired) ==
    LET n == Len(ctx.solutions)
        lastValid == validateAllRegions(ctx.solutions[n], cfg.regions).isValid
    IN IF ctx.interrupted
       THEN IF n > 0
            THEN IF lastValid
                 THEN [success |-> TRUE, solutions |-> ctx.solutions,
                       finishReason |-> "interrupted_with_solution",
             failReason |-> ""]
                 ELSE [success |-> n - 1 > 0, solutions |-> SubSeq(ctx.solutions, 1, n - 1),
                       finishReason |-> "interrupted",
             failReason |-> ""]
            ELSE [success |-> FALSE, solutions |-> ctx.solutions,
                  finishReason |-> "interrupted",
             failReason |-> ""]
       ELSE IF opts.timeoutSet /\ isExpired
       THEN [success |-> IF n > 0 THEN lastValid ELSE FALSE, solutions |-> ctx.solutions,
             finishReason |-> "timeout",
             failReason |-> ""]
       ELSE IF n > 0
       THEN [success |-> TRUE, solutions |-> ctx.solutions, finishReason |-> "solved",
             failReason |-> ""]
       ELSE [success |-> FALSE, solutions |-> ctx.solutions, finishReason |-> "no_solution",
             failReason |-> ""]

\* A faulty return that copies the first solution back into the caller's
\* grid, cell by cell, as the generator's fill does with its own grid.
FinishSolveCopyingBack ==
    /\ phase = "search" /\ stack = <<>> /\ ret # "none"
    /\ result' = ClassifyResult(context, config, options, expired)
    /\ phase' = "done"
    /\ grid' = IF context.solutions = <<>> THEN grid ELSE context.solutions[1]
    /\ UNCHANGED <<config, options, context, stack, ret, expired, hist, prevRun, gen, calc, engine, history, cache>>

FinishSolve ==
    /\ phase = "search" /\ stack = <<>> /\ ret # "none"
    /\ result' = ClassifyResult(context, config, options, expired)
    /\ phase' = "done"
    /\ UNCHANGED <<config, grid, options, context, stack, ret, expired, hist, prevRun, gen, calc, engine, history, cache>>

(***************************************************************************)
(* Inputs: configs and grids                                               *)
(***************************************************************************)
ValuesOf(rows) == [p \in Positions(Len(rows)) |-> rows[p[1] + 1][p[2] + 1]]

\* A region-only config of rows and columns.
RowColConfig(size) ==
    [size |-> size, blockWidth |-> size, blockHeight |-> 1,
     regions |-> generateRowRegions(size) \o generateColumnRegions(size),
     variantRules |-> {}]

generateStandardRegions(size, blockWidth, blockHeight) ==
    generateRowRegions(size) \o generateColumnRegions(size)
        \o generateBlockRegions(size, blockWidth, blockHeight)

\* createStandardSudokuConfig(4)
Standard4 ==
    [size |-> 4, blockWidth |-> 2, blockHeight |-> 2,
     regions |-> generateStandardRegions(4, 2, 2), variantRules |-> {}]

\* Standard regions with the diagonal rule listed in variantRules only.
Diagonal4 == [Standard4 EXCEPT !.variantRules = {"diagonal"}]

\* Rows and columns of a 3x3 grid plus a cage over (0,0),(0,1) with sum 4.
Killer3 ==
    [RowColConfig(3) EXCEPT !.regions = @ \o <<Cage(0, <<<<0, 0>>, <<0, 1>>>>, 4)>>]

AllValues2 == [Positions(2) -> 0 .. 2]

Row123 == ValuesOf(<< <<1, 2, 3>>, <<0, 0, 0>>, <<0, 0, 0>> >>)

Mid231 == ValuesOf(<< <<0, 0, 0>>, <<2, 3, 1>>, <<0, 0, 0>> >>)

Full3Bad == ValuesOf(<< <<1, 2, 3>>, <<2, 3, 1>>, <<3, 1, 2>> >>)

TwoRows4 == ValuesOf(<< <<1, 2, 3, 4>>, <<3, 4, 1, 2>>, <<0, 0, 0, 0>>, <<0, 0, 0, 0>> >>)

TwoRowsPlus4 == ValuesOf(<< <<1, 2, 3, 4>>, <<3, 4, 1, 2>>, <<2, 0, 0, 0>>, <<0, 0, 0, 0>> >>)

Empty(size) == [p \in Positions(size) |-> 0]

Scenarios ==
    {[config |-> RowColConfig(2), values |-> v] : v \in AllValues2}
    \cup {[config |-> RowColConfig(3), values |-> Row123],
          [config |-> Killer3, values |-> Mid231],
          [config |-> Killer3, values |-> Full3Bad],
          [config |-> Diagonal4, values |-> TwoRowsPlus4]}

\* The grids a caller hands over for a scenario: the puzzle as created from
\* its values and, where the first cell of the second row is empty, the same
\* puzzle after the player pencilled two notes into that cell.
InputGrids(sc) ==
    LET g == createGridFromValues(sc.values)
    IN {g, toggleCellNote(toggleCellNote(g, 1, 0, 1), 1, 0, 2)}

OptionSpace ==
    [findAllSolutions : BOOLEAN, maxSolutions : 0 .. MaxSolutionsBound,
     timeoutSet : BOOLEAN, onProgress : BOOLEAN, strategy : {"fastest", "humanlike"}]

GenIdle == [phase |-> "idle"]

NoCall == [op |-> "none"]

\* No engine, history manager or cache manager has been constructed.
NoEngine == [phase |-> "none"]

NoHistory == [past |-> <<>>, future |-> <<>>, maxHistorySize |-> 0]

NoCache == <<>>

(***************************************************************************)
(* Specification of one solveSudoku call under every option                *)
(***************************************************************************)
Init ==
    /\ \E sc \in Scenarios :
          /\ config = sc.config
          /\ grid \in InputGrids(sc)
    /\ options \in OptionSpace
    /\ phase = "idle"
    /\ context = NewContext
    /\ stack = <<>>
    /\ ret = "none"
    /\ expired = FALSE
    /\ result = NoResult
    /\ hist = NoHist
    /\ prevRun = NoPrevRun
    /\ gen = GenIdle
    /\ calc = NoCall
    /\ engine = NoEngine /\ history = NoHistory /\ cache = NoCache

Next ==
    \/ solveSudoku
    \/ DeadlinePasses
    \/ solveWithBacktracking
    \/ TryCandidate
    \/ AfterRecursiveCall
    \/ solveWithSimpleBacktracking
    \/ SimpleTryNumber
    \/ SimpleAfterRecursiveCall
    \/ FinishSolve

Spec == Init /\ [][Next]_vars

(***************************************************************************)
(* Specification of exhaustive solving: all solutions, no deadline, no     *)
(* callback, first with the heuristic search and then again with the       *)
(* simple search on the same puzzle.                                       *)
(***************************************************************************)
ExhaustiveOptions(strategy) ==
    [findAllSolutions |-> TRUE, maxSolutions |-> 1000, timeoutSet |-> FALSE,
     onProgress |-> FALSE, strategy |-> strategy]

OneGiven3 == ValuesOf(<< <<0, 0, 0>>, <<0, 2, 0>>, <<0, 0, 0>> >>)

Clash3 == ValuesOf(<< <<1, 0, 0>>, <<0, 1, 0>>, <<2, 3, 0>> >>)

\* The heuristic search visits every combination of the candidates of the
\* input grid, 4^16 of them on an empty 4x4 grid, so that grid is solved with
\* the simple search only.
ExhaustiveScenarios ==
    {[config |-> RowColConfig(2), values |-> v, strategy |-> "fastest"] : v \in AllValues2}
    \cup {[config |-> sc.config, values |-> sc.values, strategy |-> "fastest"] :
             sc \in {[config |-> RowColConfig(3), values |-> Empty(3)],
                     [config |-> RowColConfig(3), values |-> Row123],
                     [config |-> RowColConfig(3), values |-> OneGiven3],
                     [config |-> RowColConfig(3), values |-> Clash3],
                     [config |-> Killer3, values |-> Mid231],
                     [config |-> Killer3, values |-> Empty(3)],
                     [config |-> Standard4, values |-> TwoRows4],
                     [config |-> Diagonal4, values |-> TwoRowsPlus4]}}
    \cup {[config |-> Standard4, values |-> Empty(4), strategy |-> "humanlike"],
          [config |-> RowColConfig(3), values |-> Empty(3), strategy |-> "humanlike"]}

InitAll ==
    /\ \E sc \in ExhaustiveScenarios :
          /\ config = sc.config
          /\ grid = createGridFromValues(sc.values)
          /\ options = ExhaustiveOptions(sc.strategy)
    /\ phase = "idle"
    /\ context = NewContext
    /\ stack = <<>>
    /\ ret = "none"
    /\ expired = FALSE
    /\ result = NoResult
    /\ hist = NoHist
    /\ prevRun = NoPrevRun
    /\ gen = GenIdle
    /\ calc = NoCall
    /\ engine = NoEngine /\ history = NoHistory /\ cache = NoCache

\* The caller keeps the solutions of the heuristic run and calls solveSudoku
\* again on the same grid with strategy "humanlike".
SolveAgain ==
    /\ phase = "done"
    /\ ~prevRun.has
    /\ options.strategy = "fastest"
    /\ prevRun' = [has |-> TRUE, solutions |-> result.solutions]
    /\ options' = [options EXCEPT !.strategy = "humanlike"]
    /\ phase' = "idle"
    /\ result' = NoResult
    /\ context' = NewContext
    /\ UNCHANGED <<config, grid, stack, ret, expired, hist, gen, calc, engine, history, cache>>

NextAll ==
    \/ solveSudoku
    \/ solveWithBacktracking
    \/ TryCandidate
    \/ AfterRecursiveCall
    \/ solveWithSimpleBacktracking
    \/ SimpleTryNumber
    \/ SimpleAfterRecursiveCall
    \/ FinishSolve
    \/ SolveAgain

SpecAll == InitAll /\ [][NextAll]_vars

(***************************************************************************)
(* Generator: generateSudoku, the random fill and the digging of holes     *)
(***************************************************************************)
maxAttempts == 10

Reverse(s) == [i \in DOMAIN s |-> s[Len(s) + 1 - i]]

\* The orders shuffleArray may return. Math.random can produce every
\* permutation; the orders considered here are the given one and its reverse.
shuffleArray(array) == {array, Reverse(array)}

createDefaultGeneratorStats ==
    [attempts |-> 0, fullGridsGenerated |-> 0, digAttempts |-> 0, refillAttempts |-> 0]

countGivens(g) == Cardinality({p \in DOMAIN g : g[p].value # 0})

getSymmetricPosition(row, col, size, type) ==
    IF type = "rotational" THEN <<size - 1 - row, size - 1 - col>>
    ELSE IF type = "mirror" THEN <<size - 1 - row, col>>
    ELSE IF type = "diagonal" THEN <<col, row>>
    ELSE <<row, col>>

\* Math.floor(totalCells * share) for a share given in hundredths.
FloorShare(totalCells, hundredths) == (totalCells * hundredths) \div 100

Max(a, b) == IF a >= b THEN a ELSE b

Min(a, b) == IF a <= b THEN a ELSE b

minGivens(cfg) == FloorShare(cfg.size * cfg.size, 25)

maxGivens(cfg) == FloorShare(cfg.size * cfg.size, 50)

targetGivens(cfg, difficulty) ==
    LET totalCells == cfg.size * cfg.size
        byLevel == IF difficulty = "easy" THEN FloorShare(totalCells, 45)
                   ELSE IF difficulty = "medium" THEN FloorShare(totalCells, 35)
                   ELSE IF difficulty = "hard" THEN FloorShare(totalCells, 30)
                   ELSE IF difficulty = "expert" THEN FloorShare(totalCells, 25)
                   ELSE FloorShare(totalCells, 35)
    IN Max(minGivens(cfg), Min(byLevel, maxGivens(cfg)))

\* The shortcut uniqueness test of digHoles: it looks at the first empty cell
\* only and asks whether a value other than the solution's passes validation.
hasUniqueSolution(g, solution, cfg) ==
    LET empties == FilterSeq(RowMajor(cfg.size), {p \in DOMAIN g : g[p].value = 0})
    IN IF empties = <<>> THEN TRUE
       ELSE LET p == Head(empties)
                WithValue(v) == [g EXCEPT ![p].value = v]
            IN ~\E v \in 1 .. cfg.size :
                   /\ v # solution[p].value
                   /\ validateAllRegions(WithValue(v), cfg.regions).isValid

\* The first cell at or after (startRow, startCol) in row-major order that is
\* empty; row = size when there is none.
NextEmptyFrom(g, startRow, startCol, size) ==
    LET later == FilterSeq(RowMajor(size),
                           {p \in DOMAIN g : /\ p[1] * size + p[2] >= startRow * size + startCol
                                             /\ g[p].value = 0})
    IN IF later = <<>> THEN <<size, 0>> ELSE Head(later)

FillFrame(g, row, col) == [pc |-> "entry", g |-> g, row |-> row, col |-> col, todo |-> <<>>]

FillTop == gen.fillStack[Len(gen.fillStack)]

FillPop == SubSeq(gen.fillStack, 1, Len(gen.fillStack) - 1)

FillReplaceTop(f) == [gen.fillStack EXCEPT ![Len(gen.fillStack)] = f]

GeneratorCallbackAnswers == IF gen.options.onProgress THEN BOOLEAN ELSE {TRUE}

NoGeneratorResult ==
    [success |-> FALSE, puzzle |-> <<>>, solution |-> <<>>, finishReason |-> "error",
     givensCount |-> 0, errorMessage |-> ""]

NewGenerator(opts) ==
    [phase |-> "idle", options |-> opts, attempts |-> 0, fillStack |-> <<>>,
     fillRet |-> "none", filled |-> <<>>, solution |-> <<>>, workingGrid |-> <<>>,
     shuffledPositions |-> <<>>, cannotRemove |-> {}, stats |-> createDefaultGeneratorStats,
     result |-> NoGeneratorResult, stopped |-> FALSE, calledAfterStop |-> FALSE,
     changedAfterStop |-> FALSE, timedOut |-> FALSE, raised |-> FALSE]

\* The catch block of generateSudoku.
catchGenerateError(res, errorMessage) ==
    [res EXCEPT !.finishReason = "error", !.errorMessage = errorMessage]

\* generateSudoku up to the loop that synthesises the full grid.
generateSudoku ==
    /\ gen.phase = "idle"
    /\ gen' = [gen EXCEPT !.phase = "attempt"]
    /\ UNCHANGED <<config, grid, options, phase, context, stack, ret, expired, result,
                   hist, prevRun, calc, engine, history, cache>>

\* Time passes the deadline while generateSudoku is running.
GeneratorDeadlinePasses ==
    /\ gen.phase \in {"attempt", "fill", "digHoles", "dig"}
    /\ ~expired
    /\ expired' = TRUE
    /\ UNCHANGED <<config, grid, options, phase, context, stack, ret, result, hist,
                   prevRun, gen, calc, engine, history, cache>>

\* One turn of the loop of generateSudoku that calls generateFilledGrid, or
\* the exit of that loop without a filled grid.
generateFilledGrid ==
    /\ gen.phase = "attempt"
    /\ IF gen.attempts >= maxAttempts
       THEN gen' = [gen EXCEPT !.phase = "done",
                               !.result = [NoGeneratorResult EXCEPT !.finishReason = "error"]]
       ELSE IF expired
       THEN gen' = [gen EXCEPT !.phase = "done", !.attempts = @ + 1,
                               !.stats.attempts = @ + 1, !.timedOut = TRUE,
                               !.result = [NoGeneratorResult EXCEPT !.finishReason = "error"]]
       ELSE gen' = [gen EXCEPT !.phase = "fill", !.attempts = @ + 1,
                               !.stats.attempts = @ + 1,
                               !.fillStack = <<FillFrame(createEmptyGrid(config.size), 0, 0)>>,
                               !.fillRet = "none"]
    /\ UNCHANGED <<config, grid, options, phase, context, stack, ret, expired, result,
                   hist, prevRun, calc, engine, history, cache>>

\* Entry of fillGridWithBacktracking: find the next empty cell and shuffle.
fillGridWithBacktracking ==
    /\ gen.phase = "fill"
    /\ gen.fillStack # <<>> /\ gen.fillRet = "none" /\ FillTop.pc = "entry"
    /\ LET next == NextEmptyFrom(FillTop.g, FillTop.row, FillTop.col, config.size)
       IN IF next[1] >= config.size
          THEN gen' = [gen EXCEPT !.fillStack = FillPop, !.fillRet = "true",
                                  !.filled = FillTop.g]
          ELSE \E numbers \in shuffleArray([i \in 1 .. config.size |-> i]) :
                 gen' = [gen EXCEPT !.fillStack =
                            FillReplaceTop([FillTop EXCEPT !.pc = "loop", !.row = next[1],
                                                           !.col = next[2],
                                                           !.todo = numbers])]
    /\ UNCHANGED <<config, grid, options, phase, context, stack, ret, expired, result,
                   hist, prevRun, calc, engine, history, cache>>

\* One iteration of the loop over the shuffled numbers, or the return after
\* the last of them.
FillTryNumber ==
    /\ gen.phase = "fill"
    /\ gen.fillStack # <<>> /\ gen.fillRet = "none" /\ FillTop.pc = "loop"
    /\ IF FillTop.todo = <<>>
       THEN gen' = [gen EXCEPT !.fillStack = FillPop, !.fillRet = "false"]
       ELSE \E cont \in GeneratorCallbackAnswers :
              LET num == Head(FillTop.todo)
                  tempGrid == setCellValue(FillTop.g, FillTop.row, FillTop.col, num)
                  rest == [FillTop EXCEPT !.todo = Tail(@)]
                  nextCol == (FillTop.col + 1) % config.size
                  nextRow == IF FillTop.col + 1 >= config.size
                             THEN FillTop.row + 1 ELSE FillTop.row
                  called == IF gen.options.onProgress /\ gen.stopped
                            THEN [gen EXCEPT !.calledAfterStop = TRUE] ELSE gen
              IN IF validateAllRegionsThrows(tempGrid, config.regions)
                 THEN gen' = [gen EXCEPT !.phase = "done", !.raised = TRUE,
                                 !.result = catchGenerateError(gen.result, TypeErrorMessage)]
                 ELSE IF ~validateAllRegions(tempGrid, config.regions).isValid
                 THEN gen' = [gen EXCEPT !.fillStack = FillReplaceTop(rest)]
                 ELSE IF ~cont
                 THEN gen' = [called EXCEPT !.fillStack = FillPop, !.fillRet = "false",
                                            !.stopped = TRUE]
                 ELSE gen' = [called EXCEPT !.fillStack =
                                 Append(FillReplaceTop([rest EXCEPT !.pc = "await"]),
                                        FillFrame(tempGrid, nextRow, nextCol)),
                                 !.changedAfterStop = @ \/ gen.stopped]
    /\ UNCHANGED <<config, grid, options, phase, context, stack, ret, expired, result,
                   hist, prevRun, calc, engine, history, cache>>

\* fillGridWithBacktracking after its recursive call has returned.
FillAfterRecursiveCall ==
    /\ gen.phase = "fill"
    /\ gen.fillStack # <<>> /\ gen.fillRet # "none" /\ FillTop.pc = "await"
    /\ IF gen.fillRet = "true"
       THEN gen' = [gen EXCEPT !.fillStack = FillPop]
       ELSE gen' = [gen EXCEPT !.fillStack = FillReplaceTop([FillTop EXCEPT !.pc = "loop"]),
                               !.fillRet = "none"]
    /\ UNCHANGED <<config, grid, options, phase, context, stack, ret, expired, result,
                   hist, prevRun, calc, engine, history, cache>>

\* generateFilledGrid returns to generateSudoku: either the loop runs again or
\* the solution is kept and the puzzle grid is prepared for digging.
FilledGridReturns ==
    /\ gen.phase = "fill"
    /\ gen.fillStack = <<>> /\ gen.fillRet # "none"
    /\ IF gen.fillRet = "true"
       THEN LET solution == cloneGrid(gen.filled)
                puzzleGrid == [p \in DOMAIN solution |->
                                 [solution[p] EXCEPT
                                    !.isPuzzle = solution[p].value # 0]]
            IN gen' = [gen EXCEPT !.phase = "digHoles", !.solution = solution,
                                  !.workingGrid = puzzleGrid,
                                  !.stats.fullGridsGenerated = @ + 1]
       ELSE gen' = [gen EXCEPT !.phase = "attempt"]
    /\ UNCHANGED <<config, grid, options, phase, context, stack, ret, expired, result,
                   hist, prevRun, calc, engine, history, cache>>

\* The grid digHoles tests after clearing (row, col) and, in symmetrical mode,
\* its symmetric partner.
ClearedGrid(g, row, col, opts, size) ==
    LET sym == getSymmetricPosition(row, col, size, opts.symmetryType)
        alsoSym == /\ opts.symmetrical
                   /\ sym[1] >= 0 /\ sym[1] < size /\ sym[2] >= 0 /\ sym[2] < size
                   /\ sym # <<row, col>>
                   /\ g[sym].value # 0
    IN [p \in DOMAIN g |->
           IF p = <<row, col>> \/ (alsoSym /\ p = sym)
           THEN [g[p] EXCEPT !.value = 0, !.isPuzzle = FALSE]
           ELSE g[p]]

\* Entry of digHoles: shuffle the positions and clone the grid.
digHoles ==
    /\ gen.phase = "digHoles"
    /\ \E shuffled \in shuffleArray(RowMajor(config.size)) :
          gen' = [gen EXCEPT !.phase = "dig", !.shuffledPositions = shuffled,
                             !.cannotRemove = {},
                             !.workingGrid = cloneGrid(gen.workingGrid)]
    /\ UNCHANGED <<config, grid, options, phase, context, stack, ret, expired, result,
                   hist, prevRun, calc, engine, history, cache>>

\* One iteration of the loop of digHoles over the shuffled positions, or the
\* end of that loop.
DigPosition ==
    /\ gen.phase = "dig"
    /\ IF gen.shuffledPositions = <<>>
       THEN gen' = [gen EXCEPT !.phase = "finish"]
       ELSE \E cont \in GeneratorCallbackAnswers :
              LET pos == Head(gen.shuffledPositions)
                  row == pos[1]
                  col == pos[2]
                  opts == gen.options
                  seen == [gen EXCEPT !.shuffledPositions = Tail(@)]
                  tried == [seen EXCEPT !.stats.digAttempts = @ + 1]
                  tempGrid == ClearedGrid(gen.workingGrid, row, col, opts, config.size)
                  canRemove == opts.uniqueSolution =>
                                   hasUniqueSolution(tempGrid, gen.solution, config)
                  checked == IF opts.uniqueSolution
                             THEN [tried EXCEPT !.stats.refillAttempts = @ + 1]
                             ELSE tried
                  sym == getSymmetricPosition(row, col, config.size, opts.symmetryType)
                  called == IF opts.onProgress /\ gen.stopped
                            THEN [checked EXCEPT !.calledAfterStop = TRUE,
                                                 !.changedAfterStop = TRUE]
                            ELSE checked
              IN IF expired
                 THEN gen' = [gen EXCEPT !.phase = "finish", !.timedOut = TRUE]
                 ELSE IF gen.workingGrid[pos].value = 0 \/ pos \in gen.cannotRemove
                 THEN gen' = seen
                 ELSE IF countGivens(gen.workingGrid) <= targetGivens(config, opts.difficulty)
                 THEN gen' = [tried EXCEPT !.phase = "finish"]
                 ELSE IF ~canRemove
                 THEN gen' = [checked EXCEPT !.cannotRemove =
                                 @ \cup {pos} \cup (IF opts.symmetrical THEN {sym} ELSE {})]
                 ELSE IF ~cont
                 THEN gen' = [called EXCEPT !.workingGrid = tempGrid, !.phase = "finish",
                                            !.stopped = TRUE]
                 ELSE gen' = [called EXCEPT !.workingGrid = tempGrid]
    /\ UNCHANGED <<config, grid, options, phase, context, stack, ret, expired, result,
                   hist, prevRun, calc, engine, history, cache>>

\* A faulty return that hands out the dug grid as the solution, as happens
\* when the solution is not cloned before digging.
GeneratorReturnsDugGrid ==
    /\ gen.phase = "finish"
    /\ gen' = [gen EXCEPT !.phase = "done",
                          !.result = [success |-> TRUE, puzzle |-> gen.workingGrid,
                                      solution |-> gen.workingGrid,
                                      finishReason |-> "success",
                                      givensCount |-> countGivens(gen.workingGrid),
                                      errorMessage |-> ""]]
    /\ UNCHANGED <<config, grid, options, phase, context, stack, ret, expired, result,
                   hist, prevRun, calc, engine, history, cache>>

\* generateSudoku after digHoles has returned the puzzle.
GeneratorReturns ==
    /\ gen.phase = "finish"
    /\ gen' = [gen EXCEPT !.phase = "done",
                          !.result = [success |-> TRUE, puzzle |-> gen.workingGrid,
                                      solution |-> gen.solution,
                                      finishReason |-> "success",
                                      givensCount |-> countGivens(gen.workingGrid),
                                      errorMessage |-> ""]]
    /\ UNCHANGED <<config, grid, options, phase, context, stack, ret, expired, result,
                   hist, prevRun, calc, engine, history, cache>>

(***************************************************************************)
(* Specification of one generateSudoku call under every option             *)
(***************************************************************************)
GeneratorOptionSpace ==
    [difficulty : {"easy", "medium", "hard", "expert"}, uniqueSolution : BOOLEAN,
     symmetrical : BOOLEAN, symmetryType : {"rotational"}, onProgress : BOOLEAN]

\* Every option on the 2x2 grid; on the 3x3 grid no progress callback.
GeneratorScenarios ==
    {[config |-> RowColConfig(2), options |-> o] : o \in GeneratorOptionSpace}
    \cup {[config |-> RowColConfig(3), options |-> o] :
             o \in {x \in GeneratorOptionSpace : ~x.onProgress}}

InitGen ==
    /\ \E sc \in GeneratorScenarios :
          /\ config = sc.config
          /\ gen = NewGenerator(sc.options)
    /\ grid = createEmptyGrid(config.size)
    /\ options = ExhaustiveOptions("fastest")
    /\ phase = "idle"
    /\ context = NewContext
    /\ stack = <<>>
    /\ ret = "none"
    /\ expired = FALSE
    /\ result = NoResult
    /\ hist = NoHist
    /\ prevRun = NoPrevRun
    /\ calc = NoCall
    /\ engine = NoEngine /\ history = NoHistory /\ cache = NoCache

NextGen ==
    \/ generateSudoku
    \/ GeneratorDeadlinePasses
    \/ generateFilledGrid
    \/ fillGridWithBacktracking
    \/ FillTryNumber
    \/ FillAfterRecursiveCall
    \/ FilledGridReturns
    \/ digHoles
    \/ DigPosition
    \/ GeneratorReturns

SpecGen == InitGen /\ [][NextGen]_vars

(***************************************************************************)
(* Specification of the candidate queries: getCandidatesForCellBitmask and *)
(* getAllCandidatesBitmask applied to grids and configs drawn from bounded *)
(* sets.  calc holds the last call and its answer.                         *)
(***************************************************************************)
\* The grids drawn on the 3x3 configs have at most MaxFilledCells3 non-empty
\* cells, those drawn on the 4x4 config at most MaxFilledCells4.
MaxFilledCells3 == 2

MaxFilledCells4 == 1

\* Every value assignment of a size x size grid with at most maxFilled
\* non-empty cells (maxFilled in 1..3).
SparseValues(size, maxFilled) ==
    LET ps == Positions(size)
        vs == 0 .. size
        put(v, p, a) == [v EXCEPT ![p] = a]
        upTo1 == {put(Empty(size), p, a) : p \in ps, a \in vs}
        upTo2 == {put(v, p, a) : v \in upTo1, p \in ps, a \in vs}
        upTo3 == {put(v, p, a) : v \in upTo2, p \in ps, a \in vs}
    IN IF maxFilled <= 1 THEN upTo1
       ELSE IF maxFilled = 2 THEN upTo2 ELSE upTo3

JigsawRegion(n, cells) ==
    [id |-> <<"jigsaw", n>>, type |-> "jigsaw", cells |-> cells, hasSum |-> FALSE, sum |-> 0]

\* Rows and columns of a 3x3 grid plus three irregular regions, with the jigsaw
\* rule active.
Jigsaw3 ==
    [RowColConfig(3) EXCEPT
        !.regions = @ \o << JigsawRegion(0, << <<0, 0>>, <<0, 1>>, <<1, 0>> >>),
                            JigsawRegion(1, << <<0, 2>>, <<1, 1>>, <<1, 2>> >>),
                            JigsawRegion(2, << <<2, 0>>, <<2, 1>>, <<2, 2>> >>) >>,
        !.variantRules = {"jigsaw"}]

CandidateScenarios ==
    {[config |-> RowColConfig(2), values |-> v] : v \in AllValues2}
    \cup {[config |-> Killer3, values |-> v] : v \in SparseValues(3, MaxFilledCells3)}
    \cup {[config |-> Jigsaw3, values |-> v] : v \in SparseValues(3, MaxFilledCells3)}
    \cup {[config |-> Diagonal4, values |-> v] : v \in SparseValues(4, MaxFilledCells4)}

InitCandidates ==
    /\ \E sc \in CandidateScenarios :
          /\ config = sc.config
          /\ grid = createGridFromValues(sc.values)
    /\ options = ExhaustiveOptions("fastest")
    /\ phase = "idle"
    /\ context = NewContext
    /\ stack = <<>>
    /\ ret = "none"
    /\ expired = FALSE
    /\ result = NoResult
    /\ hist = NoHist
    /\ prevRun = NoPrevRun
    /\ gen = GenIdle
    /\ calc = NoCall
    /\ engine = NoEngine /\ history = NoHistory /\ cache = NoCache

\* One call getCandidatesForCellBitmask(grid, row, col, config).
CandidatesForCellCall ==
    /\ calc = NoCall
    /\ \E p \in Positions(config.size) :
          calc' = [op |-> "getCandidatesForCellBitmask", row |-> p[1], col |-> p[2],
                   candidates |-> getCandidatesForCellBitmask(grid, p[1], p[2], config)]
    /\ UNCHANGED <<config, grid, options, phase, context, stack, ret, expired, result,
                   hist, prevRun, gen, engine, history, cache>>

\* One call getAllCandidatesBitmask(grid, config).
AllCandidatesCall ==
    /\ calc = NoCall
    /\ calc' = [op |-> "getAllCandidatesBitmask",
                candidatesMap |-> getAllCandidatesBitmask(grid, config)]
    /\ UNCHANGED <<config, grid, options, phase, context, stack, ret, expired, result,
                   hist, prevRun, gen, engine, history, cache>>

NextCandidates ==
    \/ CandidatesForCellCall
    \/ AllCandidatesCall

SpecCandidates == InitCandidates /\ [][NextCandidates]_vars

(***************************************************************************)
(* Specification of one call of either entry point, solveSudoku or         *)
(* generateSudoku, on configs that may hold a region with a coordinate     *)
(* outside the grid.                                                       *)
(***************************************************************************)
CustomRegion(n, cells) ==
    [id |-> <<"custom", n>>, type |-> "custom", cells |-> cells, hasSum |-> FALSE, sum |-> 0]

\* Rows and columns of a 2x2 grid plus a region that names column 2.
BadColumn2 == [RowColConfig(2) EXCEPT !.regions = @ \o <<CustomRegion(0, << <<0, 0>>, <<0, 2>> >>)>>]

\* Rows and columns of a 2x2 grid plus a region that names row 2.
BadRow2 == [RowColConfig(2) EXCEPT !.regions = @ \o <<CustomRegion(0, << <<2, 1>>, <<1, 1>> >>)>>]

ErrorConfigs == {RowColConfig(2), BadColumn2, BadRow2}

NotCalled == [phase |-> "uncalled"]

InitErr ==
    /\ config \in ErrorConfigs
    /\ context = NewContext
    /\ stack = <<>>
    /\ ret = "none"
    /\ expired = FALSE
    /\ result = NoResult
    /\ hist = NoHist
    /\ prevRun = NoPrevRun
    /\ calc = NoCall
    /\ engine = NoEngine /\ history = NoHistory /\ cache = NoCache
    /\ \/ /\ \E v \in AllValues2 : grid = createGridFromValues(v)
          /\ options \in OptionSpace
          /\ phase = "idle"
          /\ gen = NotCalled
       \/ /\ grid = createEmptyGrid(config.size)
          /\ options = ExhaustiveOptions("fastest")
          /\ phase = "uncalled"
          /\ \E o \in GeneratorOptionSpace : gen = NewGenerator(o)

NextErr ==
    \/ solveSudoku
    \/ DeadlinePasses
    \/ solveWithBacktracking
    \/ TryCandidate
    \/ AfterRecursiveCall
    \/ solveWithSimpleBacktracking
    \/ SimpleTryNumber
    \/ SimpleAfterRecursiveCall
    \/ FinishSolve
    \/ generateSudoku
    \/ GeneratorDeadlinePasses
    \/ generateFilledGrid
    \/ fillGridWithBacktracking
    \/ FillTryNumber
    \/ FillAfterRecursiveCall
    \/ FilledGridReturns
    \/ digHoles
    \/ DigPosition
    \/ GeneratorReturns

SpecErr == InitErr /\ [][NextErr]_vars

(***************************************************************************)
(* Variant rules: support of a config and compatibility between rules      *)
(***************************************************************************)
\* A rule object: its id and the class whose methods it runs.
Rule(id, class) == [id |-> id, class |-> class]

StandardVariant == Rule("standard", "StandardVariant")

DiagonalVariant == Rule("diagonal", "DiagonalVariant")

JigsawVariant == Rule("jigsaw", "JigsawVariant")

\* Rules that keep the methods of BaseVariantRule, one of them under the id
\* of the standard rule.
MockStandardVariant == Rule("standard", "BaseVariantRule")

MockOtherVariant == Rule("other", "BaseVariantRule")

Compatible == [compatible |-> TRUE, reason |-> "none"]

Incompatible(reason) == [compatible |-> FALSE, reason |-> reason]

StandardSupportsConfig(cfg) ==
    IF cfg.size % cfg.blockWidth # 0 \/ cfg.size % cfg.blockHeight # 0
    THEN Incompatible("size not divisible by block")
    ELSE IF cfg.size < 2 THEN Incompatible("size below 2")
    ELSE Compatible

DiagonalSupportsConfig(cfg) ==
    IF cfg.size < 3 THEN Incompatible("size below 3")
    ELSE IF cfg.blockWidth # cfg.blockHeight THEN Incompatible("block not square")
    ELSE Compatible

JigsawSupportsConfig(cfg) ==
    LET jigsawRegions == SelectSeq(cfg.regions, LAMBDA region : region.type = "jigsaw")
        totalCells == cfg.size * cfg.size
        jigsawCells == SeqSum([i \in DOMAIN jigsawRegions |-> Len(jigsawRegions[i].cells)])
    IN IF Len(jigsawRegions) = 0 THEN Incompatible("no jigsaw region")
       ELSE IF jigsawCells # totalCells THEN Incompatible("cells not covered")
       ELSE Compatible

supportsConfig(rule, cfg) ==
    IF rule.class = "StandardVariant" THEN StandardSupportsConfig(cfg)
    ELSE IF rule.class = "DiagonalVariant" THEN DiagonalSupportsConfig(cfg)
    ELSE IF rule.class = "JigsawVariant" THEN JigsawSupportsConfig(cfg)
    ELSE Compatible

isCompatibleWith(rule, otherRule, cfg) ==
    IF rule.class = "StandardVariant"
    THEN IF otherRule.id = "jigsaw" THEN Incompatible("standard with jigsaw")
         ELSE Compatible
    ELSE IF rule.class = "JigsawVariant"
    THEN IF otherRule.id = "standard" THEN Incompatible("jigsaw with standard")
         ELSE Compatible
    ELSE Compatible

\* The errors of the first loop: one for each rule, in list order, that does
\* not support the config.
RECURSIVE ConfigErrors(_, _)
ConfigErrors(rules, cfg) ==
    IF rules = <<>> THEN <<>>
    ELSE (IF supportsConfig(Head(rules), cfg).compatible THEN <<>>
          ELSE << [rule |-> Head(rules).id, other |-> "config",
                   reason |-> supportsConfig(Head(rules), cfg).reason] >>)
         \o ConfigErrors(Tail(rules), cfg)

\* The index pairs i < j of the nested loops, in the order they are visited.
RECURSIVE IndexPairs(_, _, _)
IndexPairs(i, j, n) ==
    IF i > n THEN <<>>
    ELSE IF j > n THEN IndexPairs(i + 1, i + 2, n)
    ELSE << <<i, j>> >> \o IndexPairs(i, j + 1, n)

PairError(ruleA, ruleB, cfg) ==
    IF isCompatibleWith(ruleA, ruleB, cfg).compatible THEN <<>>
    ELSE << [rule |-> ruleA.id, other |-> ruleB.id,
             reason |-> isCompatibleWith(ruleA, ruleB, cfg).reason] >>

\* The second loop without the question to the later rule of each pair.
RECURSIVE PairErrorsOneWay(_, _, _)
PairErrorsOneWay(pairs, rules, cfg) ==
    IF pairs = <<>> THEN <<>>
    ELSE PairError(rules[Head(pairs)[1]], rules[Head(pairs)[2]], cfg)
         \o PairErrorsOneWay(Tail(pairs), rules, cfg)

RECURSIVE PairErrors(_, _, _)
PairErrors(pairs, rules, cfg) ==
    IF pairs = <<>> THEN <<>>
    ELSE PairError(rules[Head(pairs)[1]], rules[Head(pairs)[2]], cfg)
         \o PairError(rules[Head(pairs)[2]], rules[Head(pairs)[1]], cfg)
         \o PairErrors(Tail(pairs), rules, cfg)

\* A faulty check whose second loop asks only the earlier rule of each pair.
validateVariantRulesCombinationOneWay(rules, cfg) ==
    LET errors == ConfigErrors(rules, cfg)
                    \o PairErrorsOneWay(IndexPairs(1, 2, Len(rules)), rules, cfg)
    IN [valid |-> Len(errors) = 0, errors |-> errors]

validateVariantRulesCombination(rules, cfg) ==
    LET errors == ConfigErrors(rules, cfg)
                    \o PairErrors(IndexPairs(1, 2, Len(rules)), rules, cfg)
    IN [valid |-> Len(errors) = 0, errors |-> errors]

(***************************************************************************)
(* Specification of one supportsConfig call of the jigsaw rule on configs  *)
(* whose jigsaw regions tile a 2x2 grid, leave gaps or overlap             *)
(***************************************************************************)
MaxJigsawRegions == 2

\* Every list of at most MaxJigsawRegions jigsaw regions, each over a non-empty
\* set of cells of the grid listed in row-major order.
JigsawRegionLists(size) ==
    LET cellLists == {FilterSeq(RowMajor(size), S) : S \in SUBSET Positions(size) \ {{}}}
    IN UNION {[1 .. n -> cellLists] : n \in 0 .. MaxJigsawRegions}

JigsawConfigs ==
    {[RowColConfig(2) EXCEPT
        !.regions = @ \o [i \in DOMAIN cells |-> JigsawRegion(i - 1, cells[i])],
        !.variantRules = {"jigsaw"}] : cells \in JigsawRegionLists(2)}

InitJigsaw ==
    /\ config \in JigsawConfigs
    /\ grid = createEmptyGrid(2)
    /\ options = ExhaustiveOptions("fastest")
    /\ phase = "idle"
    /\ context = NewContext
    /\ stack = <<>>
    /\ ret = "none"
    /\ expired = FALSE
    /\ result = NoResult
    /\ hist = NoHist
    /\ prevRun = NoPrevRun
    /\ gen = GenIdle
    /\ calc = NoCall
    /\ engine = NoEngine /\ history = NoHistory /\ cache = NoCache

\* One call jigsawVariant.supportsConfig(config).
JigsawSupportsConfigCall ==
    /\ calc = NoCall
    /\ calc' = [op |-> "supportsConfig", rule |-> JigsawVariant,
                result |-> supportsConfig(JigsawVariant, config)]
    /\ UNCHANGED <<config, grid, options, phase, context, stack, ret, expired, result,
                   hist, prevRun, gen, engine, history, cache>>

NextJigsaw == JigsawSupportsConfigCall

SpecJigsaw == InitJigsaw /\ [][NextJigsaw]_vars

(***************************************************************************)
(* Specification of one validateVariantRulesCombination call on every      *)
(* short list of rules                                                     *)
(***************************************************************************)
MaxRules == 3

AllRules ==
    {StandardVariant, DiagonalVariant, JigsawVariant, MockStandardVariant, MockOtherVariant}

RuleLists == UNION {[1 .. n -> AllRules] : n \in 0 .. MaxRules}

\* A 6x6 config with 3x2 blocks and no region listed.
Blocks3x2 ==
    [size |-> 6, blockWidth |-> 3, blockHeight |-> 2, regions |-> <<>>, variantRules |-> {}]

\* A 2x2 grid under one jigsaw region that holds every cell.
OneJigsaw2 ==
    [RowColConfig(2) EXCEPT !.regions = << JigsawRegion(0, RowMajor(2)) >>]

CombinationConfigs == {Standard4, RowColConfig(2), Blocks3x2, Jigsaw3, OneJigsaw2}

InitRules ==
    /\ config \in CombinationConfigs
    /\ grid = createEmptyGrid(config.size)
    /\ options = ExhaustiveOptions("fastest")
    /\ phase = "idle"
    /\ context = NewContext
    /\ stack = <<>>
    /\ ret = "none"
    /\ expired = FALSE
    /\ result = NoResult
    /\ hist = NoHist
    /\ prevRun = NoPrevRun
    /\ gen = GenIdle
    /\ calc = NoCall
    /\ engine = NoEngine /\ history = NoHistory /\ cache = NoCache

\* One call validateVariantRulesCombination(rules, config).
ValidateCombinationCall ==
    /\ calc = NoCall
    /\ \E rules \in RuleLists :
          calc' = [op |-> "validateVariantRulesCombination", rules |-> rules,
                   result |-> validateVariantRulesCombination(rules, config)]
    /\ UNCHANGED <<config, grid, options, phase, context, stack, ret, expired, result,
                   hist, prevRun, gen, engine, history, cache>>

NextRules == ValidateCombinationCall

SpecRules == InitRules /\ [][NextRules]_vars

(***************************************************************************)
(* Engine state: export and import of a MinimalState                       *)
(*                                                                         *)
(* A MinimalState is the function from the keys "row,col" of its cells     *)
(* record, modelled as positions, to entries [hasValue, value, hasNotes,   *)
(* notes]; hasValue and hasNotes tell whether the optional field is        *)
(* present.  The meta timestamp plays no part in any grid and is left out. *)
(***************************************************************************)
deepCopyGrid(g) ==
    [p \in DOMAIN g |->
        [value |-> g[p].value, isPuzzle |-> g[p].isPuzzle,
         notes |-> {n \in g[p].notes : TRUE}]]

notesAreDifferent(notes1, notes2) ==
    IF Cardinality(notes1) # Cardinality(notes2) THEN TRUE
    ELSE \E note \in notes1 : note \notin notes2

\* A faulty exportState that records the value of a changed cell but not its notes.
exportStateWithoutNotes(g, initialGrid) ==
    [p \in {q \in DOMAIN g :
              /\ ~g[q].isPuzzle
              /\ \/ g[q].value # initialGrid[q].value
                 \/ notesAreDifferent(g[q].notes, initialGrid[q].notes)} |->
        [hasValue |-> TRUE, value |-> g[p].value, hasNotes |-> FALSE, notes |-> {}]]

exportState(g, initialGrid) ==
    [p \in {q \in DOMAIN g :
              /\ ~g[q].isPuzzle
              /\ \/ g[q].value # initialGrid[q].value
                 \/ notesAreDifferent(g[q].notes, initialGrid[q].notes)} |->
        [hasValue |-> TRUE, value |-> g[p].value, hasNotes |-> TRUE, notes |-> g[p].notes]]

importState(state, baseGrid) ==
    LET newGrid == deepCopyGrid(baseGrid)
    IN [p \in DOMAIN newGrid |->
          IF p \in DOMAIN state
          THEN [newGrid[p] EXCEPT
                  !.value = IF state[p].hasValue THEN state[p].value ELSE @,
                  !.notes = IF state[p].hasNotes THEN state[p].notes ELSE @]
          ELSE newGrid[p]]

(***************************************************************************)
(* History manager                                                         *)
(***************************************************************************)
DefaultMaxHistorySize == 500

deepCloneState(state) ==
    [p \in DOMAIN state |->
        [hasValue |-> state[p].hasValue, value |-> state[p].value,
         hasNotes |-> TRUE,
         notes |-> IF state[p].hasNotes THEN state[p].notes ELSE {}]]

\* new HistoryManagerImpl(config): a maxHistorySize of 0 stands for an absent
\* one, both give the default.
createHistoryManager(maxHistorySize) ==
    [past |-> <<>>, future |-> <<>>,
     maxHistorySize |-> IF maxHistorySize = 0 THEN DefaultMaxHistorySize
                        ELSE maxHistorySize]

Front(s) == SubSeq(s, 1, Len(s) - 1)

Last(s) == s[Len(s)]

\* A faulty addHistory that keeps the redo stack.
addHistoryKeepingFuture(h, state) ==
    LET pushed == Append(h.past, deepCloneState(state))
    IN [h EXCEPT !.past = IF Len(pushed) > h.maxHistorySize THEN Tail(pushed)
                          ELSE pushed]

\* A faulty addHistory that never drops a state.
addHistoryUnbounded(h, state) ==
    [h EXCEPT !.future = <<>>, !.past = Append(h.past, deepCloneState(state))]

addHistory(h, state) ==
    LET pushed == Append(h.past, deepCloneState(state))
    IN [h EXCEPT !.future = <<>>,
                 !.past = IF Len(pushed) > h.maxHistorySize THEN Tail(pushed)
                          ELSE pushed]

\* preparePastNavigate and prepareFutureNavigate: the manager after the call
\* and the state returned; found = FALSE stands for the null return.
preparePastNavigate(h, currentState) ==
    IF Len(h.past) = 0
    THEN [history |-> h, found |-> FALSE, state |-> <<>>]
    ELSE [history |-> [h EXCEPT !.future = Append(h.future, deepCloneState(currentState)),
                                !.past = Front(h.past)],
          found |-> TRUE, state |-> deepCloneState(Last(h.past))]

prepareFutureNavigate(h, currentState) ==
    IF Len(h.future) = 0
    THEN [history |-> h, found |-> FALSE, state |-> <<>>]
    ELSE [history |-> [h EXCEPT !.past = Append(h.past, deepCloneState(currentState)),
                                !.future = Front(h.future)],
          found |-> TRUE, state |-> deepCloneState(Last(h.future))]

clearHistory(h) == [h EXCEPT !.past = <<>>, !.future = <<>>]

(***************************************************************************)
(* Cache manager                                                           *)
(*                                                                         *)
(* The Map of the cache is a function from keys to stored values.  A key   *)
(* is the pair of the prefix the engine writes before the colon and the    *)
(* grid key.  An object handed over by reference is told apart from a deep *)
(* copy by the flags storedObject and storedArgument.                      *)
(***************************************************************************)
deepCloneObject(obj) == obj

\* The string lists, for every cell with a value or a note, its position, the
\* value unless it is 0 and the sorted notes unless there are none.
generateGridKey(g) ==
    [p \in {q \in DOMAIN g : g[q].value # 0 \/ g[q].notes # {}} |->
        [v |-> g[p].value, n |-> g[p].notes]]

\* A faulty get that hands out the stored object itself.
cacheGetByReference(c, key) ==
    IF key \notin DOMAIN c THEN [found |-> FALSE, value |-> <<>>, storedObject |-> FALSE]
    ELSE [found |-> TRUE, value |-> c[key], storedObject |-> TRUE]

cacheGet(c, key) ==
    IF key \notin DOMAIN c THEN [found |-> FALSE, value |-> <<>>, storedObject |-> FALSE]
    ELSE [found |-> TRUE, value |-> deepCloneObject(c[key]), storedObject |-> FALSE]

cacheSet(c, key, value) ==
    [cache |-> [k \in DOMAIN c \cup {key} |->
                  IF k = key THEN deepCloneObject(value) ELSE c[k]],
     storedArgument |-> FALSE]

cacheClear(c) == <<>>

(***************************************************************************)
(* Regions and validation of the variant rules                             *)
(***************************************************************************)
\* StandardVariant.getRegions: rows, columns and blocks, the blocks under ids
\* made of block row and block column.
StandardGetRegions(cfg) ==
    LET blockRows == cfg.size \div cfg.blockHeight
        blockCols == cfg.size \div cfg.blockWidth
    IN generateRowRegions(cfg.size) \o generateColumnRegions(cfg.size)
        \o [b \in 1 .. blockRows * blockCols |->
              LET blockRow == (b - 1) \div blockCols
                  blockCol == (b - 1) % blockCols
              IN [id |-> <<"block", blockRow, blockCol>>, type |-> "block",
                  cells |-> [k \in 1 .. cfg.blockWidth * cfg.blockHeight |->
                               <<blockRow * cfg.blockHeight + ((k - 1) \div cfg.blockWidth),
                                 blockCol * cfg.blockWidth + ((k - 1) % cfg.blockWidth)>>],
                  hasSum |-> FALSE, sum |-> 0]]

RegionsOfType(cfg, types) == SelectSeq(cfg.regions, LAMBDA region : region.type \in types)

getRegions(rule, cfg) ==
    IF rule.class = "StandardVariant" THEN StandardGetRegions(cfg)
    ELSE IF rule.class = "DiagonalVariant" THEN DiagonalGetRegions(cfg.size)
    ELSE IF rule.class = "JigsawVariant" THEN RegionsOfType(cfg, {"jigsaw"})
    ELSE <<>>

RECURSIVE collectRegionsFromVariants(_, _)
collectRegionsFromVariants(variantRules, cfg) ==
    IF variantRules = <<>> THEN <<>>
    ELSE getRegions(Head(variantRules), cfg)
         \o collectRegionsFromVariants(Tail(variantRules), cfg)

ValidResult == [isValid |-> TRUE, errorCells |-> {}, conflictSources |-> {}]

\* rule.validate(grid, config); a rule without a validate method adds nothing.
validateRule(rule, g, cfg) ==
    IF rule.class = "StandardVariant"
    THEN validateAllRegions(g, RegionsOfType(cfg, {"row", "column", "block"}))
    ELSE IF rule.class = "DiagonalVariant"
    THEN IF RegionsOfType(cfg, {"diagonal"}) = <<>>
         THEN validateAllRegions(g, DiagonalGetRegions(cfg.size))
         ELSE validateAllRegions(g, RegionsOfType(cfg, {"diagonal"}))
    ELSE IF rule.class = "JigsawVariant"
    THEN IF RegionsOfType(cfg, {"jigsaw"}) = <<>>
         THEN [ValidResult EXCEPT !.isValid = FALSE]
         ELSE validateAllRegions(g, RegionsOfType(cfg, {"jigsaw"}))
    ELSE ValidResult

validateWithVariants(g, cfg, variantRules) ==
    mergeValidationResults([i \in DOMAIN variantRules |-> validateRule(variantRules[i], g, cfg)])

isGridComplete(g, regions) ==
    LET allFilled == \A p \in DOMAIN g : g[p].value # 0
    IN IF ~allFilled THEN FALSE
       ELSE allFilled /\ validateAllRegions(g, regions).isValid

(***************************************************************************)
(* Engine: construction, queries and operations                            *)
(*                                                                         *)
(* An engine config lists its variant rules as a sequence of rule objects  *)
(* and may carry an initialGrid (NoGrid when absent).  The engine record   *)
(* holds config, puzzle and currentGrid, the call made last with what it   *)
(* returned, the number of state-changing calls made, and two observation  *)
(* stacks: the grids that stood before each edit not yet undone, and the   *)
(* grids that the undos not yet redone replaced.  tampered tells whether   *)
(* the caller has changed an object that a query returned.                 *)
(***************************************************************************)
NoGrid == <<>>

nonEngineVars == <<config, grid, options, phase, context, stack, ret, expired, result,
                   hist, prevRun, gen, calc>>

\* A faulty merge that appends every region the rules contribute.
RECURSIVE AddEveryRegion(_, _)
AddEveryRegion(regions, variantRegions) ==
    IF variantRegions = <<>> THEN regions
    ELSE AddEveryRegion(Append(regions, Head(variantRegions)), Tail(variantRegions))

\* The merge loop of the constructor: a contributed region is pushed unless
\* its id is already in the list.
RECURSIVE AddMissingRegions(_, _)
AddMissingRegions(regions, variantRegions) ==
    IF variantRegions = <<>> THEN regions
    ELSE LET region == Head(variantRegions)
             existingRegionIds == {regions[i].id : i \in DOMAIN regions}
         IN AddMissingRegions(IF region.id \in existingRegionIds THEN regions
                              ELSE Append(regions, region),
                              Tail(variantRegions))

newSudokuEngineImpl(cfg) ==
    LET regions == IF Len(cfg.variantRules) > 0
                   THEN AddMissingRegions(cfg.regions,
                            collectRegionsFromVariants(cfg.variantRules, cfg))
                   ELSE cfg.regions
        puzzle == IF cfg.initialGrid # NoGrid THEN deepCopyGrid(cfg.initialGrid)
                  ELSE createEmptyGrid(cfg.size)
    IN [phase |-> "ready",
        config |-> [cfg EXCEPT !.regions = regions],
        puzzle |-> puzzle,
        currentGrid |-> deepCopyGrid(puzzle),
        last |-> [op |-> "new"],
        calls |-> 0,
        before |-> <<>>,
        replaced |-> <<>>,
        tampered |-> FALSE]

\* The config as the candidates module reads it: the rules by their ids.
CandidatesConfig(cfg) ==
    [size |-> cfg.size, blockWidth |-> cfg.blockWidth, blockHeight |-> cfg.blockHeight,
     regions |-> cfg.regions,
     variantRules |-> {cfg.variantRules[i].id : i \in DOMAIN cfg.variantRules}]

\* The result validate() computes when the cache has no entry.
computeValidation(e) ==
    LET standardResult == validateAllRegions(e.currentGrid, e.config.regions)
    IN IF Len(e.config.variantRules) > 0
       THEN mergeValidationResults(
                <<standardResult,
                  validateWithVariants(e.currentGrid, e.config, e.config.variantRules)>>)
       ELSE standardResult

computeAllCandidates(e) == getAllCandidatesBitmask(e.currentGrid, CandidatesConfig(e.config))

isComplete(e) == isGridComplete(e.currentGrid, e.config.regions)

\* A query served through the cache: the cached value if there is one, else
\* the computed value, stored under the key.  sameObject tells whether the
\* object returned is the object the cache holds.
cachedQuery(e, c, prefix, computed) ==
    LET cacheKey == <<prefix, generateGridKey(e.currentGrid)>>
        cachedResult == cacheGet(c, cacheKey)
        stored == cacheSet(c, cacheKey, computed)
    IN IF cachedResult.found
       THEN [cache |-> c, ret |-> cachedResult.value, key |-> cacheKey, cached |-> TRUE,
             sameObject |-> cachedResult.storedObject]
       ELSE [cache |-> stored.cache, ret |-> computed, key |-> cacheKey, cached |-> FALSE,
             sameObject |-> stored.storedArgument]

(***************************************************************************)
(* Specification of an engine on a 2x2 grid: construction, then at most    *)
(* MaxCalls state-changing calls interleaved with queries                  *)
(***************************************************************************)
Cell(value, isPuzzle) == [value |-> value, isPuzzle |-> isPuzzle, notes |-> {}]

\* One given, 1 at (0,0).
OneGiven2 ==
    [p \in Positions(2) |-> IF p = <<0, 0>> THEN Cell(1, TRUE) ELSE Cell(0, FALSE)]

\* Three givens that leave (1,1) to be filled.
ThreeGivens2 ==
    [p \in Positions(2) |->
        IF p = <<0, 0>> THEN Cell(1, TRUE)
        ELSE IF p = <<1, 1>> THEN Cell(0, FALSE)
        ELSE Cell(2, TRUE)]

\* Two jigsaw regions that tile the 2x2 grid.
JigsawTiles2 ==
    << JigsawRegion(0, << <<0, 0>>, <<1, 1>> >>), JigsawRegion(1, << <<0, 1>>, <<1, 0>> >>) >>

EngineConfig(regions, variantRules, initialGrid) ==
    [size |-> 2, blockWidth |-> 2, blockHeight |-> 1, regions |-> regions,
     variantRules |-> variantRules, initialGrid |-> initialGrid]

EngineRuleSetups ==
    {[regions |-> RowColConfig(2).regions, rules |-> <<>>],
     [regions |-> RowColConfig(2).regions, rules |-> <<StandardVariant>>],
     [regions |-> RowColConfig(2).regions, rules |-> <<DiagonalVariant, DiagonalVariant>>],
     [regions |-> RowColConfig(2).regions, rules |-> <<JigsawVariant>>],
     [regions |-> RowColConfig(2).regions \o JigsawTiles2, rules |-> <<JigsawVariant>>]}

EngineConfigs ==
    {EngineConfig(s.regions, s.rules, g) : s \in EngineRuleSetups, g \in {OneGiven2, ThreeGivens2}}
        \cup {EngineConfig(RowColConfig(2).regions, <<>>, NoGrid)}

\* The cells the calls of a session name: the cell of the first given, a cell
\* that is never a given, and a position below the last row.
EditedPositions == {<<0, 0>>, <<1, 1>>, <<2, 0>>}

StateEntry(hasValue, value, hasNotes, notes) ==
    [hasValue |-> hasValue, value |-> value, hasNotes |-> hasNotes, notes |-> notes]

\* The states handed to importState: an empty one, one that names cell (0,0),
\* one with a value and notes for (1,1), and one whose key lies outside the
\* grid.
ImportedStates ==
    {<<>>,
     [p \in {<<0, 0>>} |-> StateEntry(TRUE, 2, FALSE, {})],
     [p \in {<<1, 1>>} |-> StateEntry(TRUE, 2, TRUE, {1})],
     [p \in {<<2, 0>>} |-> StateEntry(TRUE, 1, TRUE, {})]}

MaxCalls == 2

MaxEdits == 6

\* The largest value setValue lets through.
MaxSetValue == 9

\* createSudokuEngineCore(config)
createSudokuEngineCore ==
    /\ engine.phase = "none"
    /\ engine' = newSudokuEngineImpl(config)
    /\ history' = createHistoryManager(0)
    /\ cache' = NoCache
    /\ UNCHANGED nonEngineVars

\* engine.validate()
EngineValidate ==
    /\ engine.phase = "ready"
    /\ LET q == cachedQuery(engine, cache, "validate", computeValidation(engine))
       IN /\ cache' = q.cache
          /\ engine' = [engine EXCEPT !.last = [op |-> "validate", ret |-> q.ret,
                                                key |-> q.key, cached |-> q.cached,
                                                sameObject |-> q.sameObject]]
    /\ UNCHANGED <<history, nonEngineVars>>

\* engine.getAllCandidates()
EngineGetAllCandidates ==
    /\ engine.phase = "ready"
    /\ LET q == cachedQuery(engine, cache, "candidates", computeAllCandidates(engine))
       IN /\ cache' = q.cache
          /\ engine' = [engine EXCEPT !.last = [op |-> "getAllCandidates", ret |-> q.ret,
                                                key |-> q.key, cached |-> q.cached,
                                                sameObject |-> q.sameObject]]
    /\ UNCHANGED <<history, nonEngineVars>>

\* The caller changes the object the last validate() or getAllCandidates()
\* returned: it flips isValid, or empties the map.  The cache entry changes
\* with it when the object returned was the object the cache holds.
CallerChangesResult ==
    /\ engine.phase = "ready"
    /\ engine.last.op \in {"validate", "getAllCandidates"}
    /\ LET changed == IF engine.last.op = "validate"
                      THEN [engine.last.ret EXCEPT !.isValid = ~@]
                      ELSE <<>>
       IN cache' = IF engine.last.sameObject
                   THEN [cache EXCEPT ![engine.last.key] = changed]
                   ELSE cache
    /\ engine' = [engine EXCEPT !.last = [op |-> "changed"], !.tampered = TRUE]
    /\ UNCHANGED <<history, nonEngineVars>>

\* engine.isComplete()
EngineIsComplete ==
    /\ engine.phase = "ready"
    /\ engine' = [engine EXCEPT !.last = [op |-> "isComplete", ret |-> isComplete(engine)]]
    /\ UNCHANGED <<history, cache, nonEngineVars>>

\* engine.setValue(row, col, value)
SetValueWithin(maxCalls) ==
    /\ engine.phase = "ready" /\ engine.calls < maxCalls
    /\ \E p \in EditedPositions, value \in -1 .. engine.config.size + 1 :
          LET row == p[1]
              col == p[2]
              size == GridSize(engine.currentGrid)
              call == [op |-> "setValue", value |-> value]
          IN IF row < 0 \/ row >= size \/ col < 0 \/ col >= size
                \/ value < 0 \/ value > MaxSetValue
             THEN /\ engine' = [engine EXCEPT !.last = [op |-> call.op, ok |-> FALSE]]
                  /\ UNCHANGED <<history, cache>>
             ELSE IF engine.currentGrid[<<row, col>>].isPuzzle
             THEN /\ engine' = [engine EXCEPT !.last = [op |-> call.op, ok |-> FALSE]]
                  /\ UNCHANGED <<history, cache>>
             ELSE LET currentState == exportState(engine.currentGrid, engine.puzzle)
                      newGrid == [deepCopyGrid(engine.currentGrid) EXCEPT
                                    ![<<row, col>>].value = value,
                                    ![<<row, col>>].notes = IF value # 0 THEN {} ELSE @]
                  IN /\ engine' = [engine EXCEPT !.currentGrid = newGrid,
                                                 !.last = call @@ [ok |-> TRUE],
                                                 !.calls = @ + 1,
                                                 !.before = Append(@, engine.currentGrid),
                                                 !.replaced = <<>>]
                     /\ history' = addHistory(history, currentState)
                     /\ cache' = cacheClear(cache)
    /\ UNCHANGED nonEngineVars

\* engine.toggleNote(row, col, noteValue)
ToggleNoteWithin(maxCalls) ==
    /\ engine.phase = "ready" /\ engine.calls < maxCalls
    /\ \E p \in EditedPositions, noteValue \in 0 .. engine.config.size + 1 :
          LET row == p[1]
              col == p[2]
              size == GridSize(engine.currentGrid)
              call == [op |-> "toggleNote", value |-> noteValue]
          IN IF row < 0 \/ row >= size \/ col < 0 \/ col >= size
                \/ noteValue <= 0 \/ noteValue > engine.config.size
             THEN /\ engine' = [engine EXCEPT !.last = [op |-> call.op, ok |-> FALSE]]
                  /\ UNCHANGED <<history, cache>>
             ELSE IF \/ engine.currentGrid[<<row, col>>].isPuzzle
                     \/ engine.currentGrid[<<row, col>>].value # 0
             THEN /\ engine' = [engine EXCEPT !.last = [op |-> call.op, ok |-> FALSE]]
                  /\ UNCHANGED <<history, cache>>
             ELSE LET currentState == exportState(engine.currentGrid, engine.puzzle)
                      newGrid == [deepCopyGrid(engine.currentGrid) EXCEPT
                                    ![<<row, col>>].notes =
                                        IF noteValue \in @ THEN @ \ {noteValue}
                                        ELSE @ \cup {noteValue}]
                  IN /\ engine' = [engine EXCEPT !.currentGrid = newGrid,
                                                 !.last = call @@ [ok |-> TRUE],
                                                 !.calls = @ + 1,
                                                 !.before = Append(@, engine.currentGrid),
                                                 !.replaced = <<>>]
                     /\ history' = addHistory(history, currentState)
                     /\ cache' = cacheClear(cache)
    /\ UNCHANGED nonEngineVars

\* engine.undo()
UndoWithin(maxCalls) ==
    /\ engine.phase = "ready" /\ engine.calls < maxCalls
    /\ LET currentState == exportState(engine.currentGrid, engine.puzzle)
           previousState == preparePastNavigate(history, currentState)
           call == [op |-> "undo", pending |-> engine.before # <<>>,
                    expected |-> IF engine.before # <<>> THEN Last(engine.before)
                                 ELSE engine.currentGrid]
       IN IF ~previousState.found
          THEN /\ engine' = [engine EXCEPT !.last = call @@ [ok |-> FALSE]]
               /\ UNCHANGED <<history, cache>>
          ELSE /\ engine' = [engine EXCEPT
                    !.currentGrid = deepCopyGrid(importState(previousState.state,
                                                             engine.puzzle)),
                    !.last = call @@ [ok |-> TRUE],
                    !.calls = @ + 1,
                    !.before = IF @ # <<>> THEN Front(@) ELSE @,
                    !.replaced = Append(@, engine.currentGrid)]
               /\ history' = previousState.history
               /\ cache' = cacheClear(cache)
    /\ UNCHANGED nonEngineVars

\* engine.redo()
RedoWithin(maxCalls) ==
    /\ engine.phase = "ready" /\ engine.calls < maxCalls
    /\ LET currentState == exportState(engine.currentGrid, engine.puzzle)
           nextState == prepareFutureNavigate(history, currentState)
           call == [op |-> "redo", pending |-> engine.replaced # <<>>,
                    expected |-> IF engine.replaced # <<>> THEN Last(engine.replaced)
                                 ELSE engine.currentGrid]
       IN IF ~nextState.found
          THEN /\ engine' = [engine EXCEPT !.last = call @@ [ok |-> FALSE]]
               /\ UNCHANGED <<history, cache>>
          ELSE /\ engine' = [engine EXCEPT
                    !.currentGrid = deepCopyGrid(importState(nextState.state,
                                                             engine.puzzle)),
                    !.last = call @@ [ok |-> TRUE],
                    !.calls = @ + 1,
                    !.before = Append(@, engine.currentGrid),
                    !.replaced = IF @ # <<>> THEN Front(@) ELSE @]
               /\ history' = nextState.history
               /\ cache' = cacheClear(cache)
    /\ UNCHANGED nonEngineVars

\* engine.importState(minimalState)
ImportStateWithin(maxCalls) ==
    /\ engine.phase = "ready" /\ engine.calls < maxCalls
    /\ \E minimalState \in ImportedStates :
          /\ engine' = [engine EXCEPT
                !.currentGrid = deepCopyGrid(importState(minimalState, engine.puzzle)),
                !.last = [op |-> "importState", ok |-> TRUE],
                !.calls = @ + 1,
                !.before = <<>>,
                !.replaced = <<>>]
          /\ history' = clearHistory(history)
          /\ cache' = cacheClear(cache)
    /\ UNCHANGED nonEngineVars

\* The calls of an engine session, at most MaxCalls of them changing the state.
EngineSetValue == SetValueWithin(MaxCalls)

EngineToggleNote == ToggleNoteWithin(MaxCalls)

EngineUndo == UndoWithin(MaxCalls)

EngineRedo == RedoWithin(MaxCalls)

EngineImportState == ImportStateWithin(MaxCalls)

\* The calls of an editing session, at most MaxEdits of them changing the state.
EditSetValue == SetValueWithin(MaxEdits)

EditToggleNote == ToggleNoteWithin(MaxEdits)

EditUndo == UndoWithin(MaxEdits)

EditRedo == RedoWithin(MaxEdits)

InitEngine ==
    /\ config \in EngineConfigs
    /\ grid = createEmptyGrid(2)
    /\ options = ExhaustiveOptions("fastest")
    /\ phase = "idle"
    /\ context = NewContext
    /\ stack = <<>>
    /\ ret = "none"
    /\ expired = FALSE
    /\ result = NoResult
    /\ hist = NoHist
    /\ prevRun = NoPrevRun
    /\ gen = GenIdle
    /\ calc = NoCall
    /\ engine = NoEngine /\ history = NoHistory /\ cache = NoCache

NextEngine ==
    \/ createSudokuEngineCore
    \/ EngineValidate
    \/ EngineGetAllCandidates
    \/ CallerChangesResult
    \/ EngineIsComplete
    \/ EngineSetValue
    \/ EngineToggleNote
    \/ EngineUndo
    \/ EngineRedo
    \/ EngineImportState

SpecEngine == InitEngine /\ [][NextEngine]_vars

(***************************************************************************)
(* Specification of the editing calls alone: setValue, toggleNote, undo    *)
(* and redo on a freshly constructed engine                                *)
(***************************************************************************)
InitEdit ==
    /\ config \in {EngineConfig(RowColConfig(2).regions, <<>>, g) : g \in {OneGiven2}}
    /\ grid = createEmptyGrid(2)
    /\ options = ExhaustiveOptions("fastest")
    /\ phase = "idle"
    /\ context = NewContext
    /\ stack = <<>>
    /\ ret = "none"
    /\ expired = FALSE
    /\ result = NoResult
    /\ hist = NoHist
    /\ prevRun = NoPrevRun
    /\ gen = GenIdle
    /\ calc = NoCall
    /\ engine = NoEngine /\ history = NoHistory /\ cache = NoCache

NextEdit ==
    \/ createSudokuEngineCore
    \/ EditSetValue
    \/ EditToggleNote
    \/ EditUndo
    \/ EditRedo

SpecEdit == InitEdit /\ [][NextEdit]_vars

(***************************************************************************)
(* Reference notions used by the properties                                *)
(***************************************************************************)
IsFull(g) == \A p \in DOMAIN g : g[p].value # 0

RegionSatisfied(g, region) ==
    LET cells == Range(region.cells)
    IN /\ \A p, q \in cells : (p # q /\ g[p].value # 0) => g[p].value # g[q].value
       /\ (region.hasSum /\ \A p \in cells : g[p].value # 0) =>
              SeqSum([i \in DOMAIN region.cells |-> g[region.cells[i]].value]) = region.sum

\* The regions contributed by the rules a solver config lists by id.
RegionsOfListedRules(cfg) ==
    collectRegionsFromVariants(
        IF "diagonal" \in cfg.variantRules THEN <<DiagonalVariant>> ELSE <<>>, cfg)

AllRuleRegions(cfg) == Range(cfg.regions) \cup Range(RegionsOfListedRules(cfg))

AgreesWithGivens(g, g0) == \A p \in DOMAIN g0 : g0[p].value # 0 => g[p].value = g0[p].value

Returned == IF phase = "done" THEN Range(result.solutions) ELSE {}

(***************************************************************************)
(* C1: every grid returned in solutions is full, has no duplicate in any   *)
(* region of the config nor in any region contributed by an active variant *)
(* rule, and every sum region sums to its target.                          *)
(***************************************************************************)
C1_SolutionsSatisfyEveryRule ==
    \A s \in Returned :
        IsFull(s) /\ \A region \in AllRuleRegions(config) : RegionSatisfied(s, region)

(***************************************************************************)
(* C4: every grid of the search and every recorded or returned solution    *)
(* holds the input value in each cell that was non-zero in the input grid.  *)
(***************************************************************************)
C4_GivensNeverChange ==
    /\ \A i \in DOMAIN stack : AgreesWithGivens(stack[i].g, grid)
    /\ \A s \in Range(context.solutions) \cup Returned : AgreesWithGivens(s, grid)

C4_Witness ==
    /\ phase = "done"
    /\ result.solutions # <<>>
    /\ \E p, q \in DOMAIN grid : grid[p].value # 0 /\ grid[q].value = 0

(***************************************************************************)
(* C5: once the progress callback has returned false, no step of the solver *)
(* makes an assignment, records a solution or invokes the callback.        *)
(***************************************************************************)
C5_NothingAfterCallbackStop ==
    [][hist.stopped =>
          /\ context'.stats.assignments = context.stats.assignments
          /\ context'.solutions = context.solutions
          /\ hist'.cbCalls = hist.cbCalls]_vars

C5_Witness ==
    /\ phase = "done"
    /\ hist.stopped
    /\ context.stats.assignments >= 2
    /\ context.stats.backtracks = 0

(***************************************************************************)
(* C6: once a periodic deadline check has observed the deadline passed, no  *)
(* step of the solver makes an assignment or records a solution.           *)
(***************************************************************************)
C6_NothingAfterDeadlineSeen ==
    [][hist.deadlineSeen =>
          /\ context'.stats.assignments = context.stats.assignments
          /\ context'.solutions = context.solutions]_vars

(***************************************************************************)
(* C7: an input grid that violates a region constraint yields no_solution, *)
(* success = false and no solutions, whatever the options.                 *)
(***************************************************************************)
InputViolatesRegion == \E region \in Range(config.regions) : ~RegionSatisfied(grid, region)

C7_InvalidInputIsNoSolution ==
    (phase = "done" /\ InputViolatesRegion) =>
        /\ result.finishReason = "no_solution"
        /\ ~result.success
        /\ result.solutions = <<>>

C7_Witness ==
    /\ phase = "done"
    /\ InputViolatesRegion
    /\ options.findAllSolutions /\ options.onProgress /\ options.timeoutSet
    /\ expired

(***************************************************************************)
(* C8: when the callback stopped the search, the result is                 *)
(* interrupted_with_solution with success if a solution had been recorded, *)
(* and interrupted without success and without solutions otherwise.        *)
(***************************************************************************)
C8_InterruptedClassification ==
    (phase = "done" /\ hist.stopped) =>
        IF context.solutions # <<>>
        THEN /\ result.finishReason = "interrupted_with_solution"
             /\ result.success
             /\ result.solutions = context.solutions
        ELSE /\ result.finishReason = "interrupted"
             /\ ~result.success
             /\ result.solutions = <<>>

C8_Witness ==
    /\ phase = "done"
    /\ hist.stopped
    /\ expired
    /\ result.finishReason = "interrupted_with_solution"
    /\ Len(result.solutions) >= 2

(***************************************************************************)
(* C9: the number of returned solutions never exceeds maxSolutions, and    *)
(* never exceeds 1 when findAllSolutions is false.                         *)
(***************************************************************************)
C9_SolutionCountWithinLimit ==
    phase = "done" =>
        /\ Len(result.solutions) <= options.maxSolutions
        /\ ~options.findAllSolutions => Len(result.solutions) <= 1

(***************************************************************************)
(* The valid completions of a grid, computed independently of the solver.  *)
(* Every config above has each row as a region, so a valid full grid has a *)
(* permutation of 1..size in each row.                                     *)
(***************************************************************************)
ValuesIn(g) == [p \in DOMAIN g |-> g[p].value]

ValidCompletions(cfg, g0) ==
    LET n == cfg.size
        AsGrid(rows) == [p \in Positions(n) |->
                            [value |-> rows[p[1]][p[2] + 1], isPuzzle |-> FALSE,
                             notes |-> {}]]
    IN {ValuesIn(AsGrid(rows)) : rows \in
          {r \in [0 .. n - 1 -> Permutations(1 .. n)] :
              /\ AgreesWithGivens(AsGrid(r), g0)
              /\ \A region \in Range(cfg.regions) : RegionSatisfied(AsGrid(r), region)}}

IsEmptyGrid(g) == \A p \in DOMAIN g : g[p].value = 0

(***************************************************************************)
(* C3: from a fully empty grid, with all solutions wanted, a limit above   *)
(* the total, no deadline and no callback stop, the returned solutions are *)
(* exactly the valid completions, each once: 288 for the 4x4 grid with 2x2 *)
(* blocks.                                                                 *)
(***************************************************************************)
C3_EmptyGridYieldsAllCompletions ==
    (phase = "done" /\ IsEmptyGrid(grid)) =>
        LET all == ValidCompletions(config, grid)
        IN /\ {ValuesIn(s) : s \in Range(result.solutions)} = all
           /\ Len(result.solutions) = Cardinality(all)
           /\ config = Standard4 => Len(result.solutions) = 288

C3_Witness ==
    /\ phase = "done"
    /\ IsEmptyGrid(grid)
    /\ config = RowColConfig(3)
    /\ Len(result.solutions) = 12
    /\ Cardinality(Range(result.solutions)) = 12

(***************************************************************************)
(* C10: on the same puzzle, with all solutions wanted and nothing cutting  *)
(* the search short, the simple search returns the same set of solutions   *)
(* as the heuristic search.                                                *)
(***************************************************************************)
C10_StrategiesAgree ==
    (phase = "done" /\ prevRun.has) =>
        Range(result.solutions) = Range(prevRun.solutions)

C10_Witness ==
    /\ phase = "done"
    /\ prevRun.has
    /\ Len(result.solutions) >= 2
    /\ result.solutions # prevRun.solutions

(***************************************************************************)
(* C2: every successful generateSudoku result produced with                *)
(* uniqueSolution = true returns a puzzle that has exactly one valid       *)
(* completion.                                                             *)
(***************************************************************************)
C2_GeneratedPuzzleHasOneCompletion ==
    (gen.phase = "done" /\ gen.result.success /\ gen.options.uniqueSolution) =>
        Cardinality(ValidCompletions(config, gen.result.puzzle)) = 1

(***************************************************************************)
(* C11: at every selection step of the heuristic search, the chosen empty  *)
(* cell has the fewest candidates among all empty cells of the current     *)
(* search grid, the candidates being those of the candidates module        *)
(* computed on that grid.                                                  *)
(***************************************************************************)
CurrentCandidateCount(g, p) == Cardinality(getCandidatesForCellBitmask(g, p[1], p[2], config))

C11_SelectedCellHasFewestCandidates ==
    (phase = "search" /\ options.strategy = "fastest") =>
        \A k \in DOMAIN stack :
            stack[k].pc \in {"loop", "await"} =>
                \A p \in DOMAIN stack[k].g :
                    IsEmptyCell(stack[k].g, p) =>
                        CurrentCandidateCount(stack[k].g, <<stack[k].row, stack[k].col>>)
                            <= CurrentCandidateCount(stack[k].g, p)

(***************************************************************************)
(* C12: for any grid, config (with or without active variant rules) and    *)
(* cell, every value of getCandidatesForCellBitmask is accepted by         *)
(* isValidMoveBitmask on config.regions and every value of 1..size outside *)
(* the candidate set is rejected by it.  Stated for empty cells only: a    *)
(* filled cell has no candidates at all, whatever isValidMoveBitmask says  *)
(* about it.                                                               *)
(***************************************************************************)
C12_CandidatesAgreeWithValidMove ==
    (calc.op = "getCandidatesForCellBitmask" /\ IsEmptyCell(grid, <<calc.row, calc.col>>)) =>
        \A value \in 1 .. config.size :
            (value \in calc.candidates)
                <=> isValidMoveBitmask(grid, calc.row, calc.col, value, config.regions)

(***************************************************************************)
(* C13: getAllCandidatesBitmask returns an entry for exactly the empty     *)
(* cells of the grid, and each entry equals what                           *)
(* getCandidatesForCellBitmask returns for that cell on the same grid and  *)
(* config.                                                                 *)
(***************************************************************************)
C13_BatchEqualsSingleCell ==
    calc.op = "getAllCandidatesBitmask" =>
        /\ DOMAIN calc.candidatesMap = {p \in DOMAIN grid : IsEmptyCell(grid, p)}
        /\ \A p \in DOMAIN calc.candidatesMap :
              calc.candidatesMap[p] = getCandidatesForCellBitmask(grid, p[1], p[2], config)

\* A batch answer on a grid with a diagonal rule at work: some empty cell has
\* lost a value that no region of the config excludes.
C13_Witness ==
    /\ calc.op = "getAllCandidatesBitmask"
    /\ config.variantRules # {}
    /\ \E p \in DOMAIN calc.candidatesMap :
          \E value \in 1 .. config.size :
              /\ value \notin calc.candidatesMap[p]
              /\ isValidMoveBitmask(grid, p[1], p[2], value, config.regions)
    /\ \E p \in DOMAIN grid : ~IsEmptyCell(grid, p)

(***************************************************************************)
(* C14: for every successful result of generateSudoku, under every         *)
(* difficulty, uniqueSolution, symmetry and timeout option, givensCount    *)
(* (the number of non-empty cells of the returned puzzle) lies within      *)
(* [minGivens, maxGivens].                                                 *)
(***************************************************************************)
C14_GivensCountWithinLimits ==
    (gen.phase = "done" /\ gen.result.success) =>
        /\ gen.result.givensCount = countGivens(gen.result.puzzle)
        /\ minGivens(config) <= gen.result.givensCount
        /\ gen.result.givensCount <= maxGivens(config)

(***************************************************************************)
(* C15: when generateSudoku finds its deadline passed, in the loop that    *)
(* synthesises the full grid or in the loop that digs, it returns          *)
(* finishReason "timeout".                                                 *)
(***************************************************************************)
C15_DeadlineGivesTimeout ==
    (gen.phase = "done" /\ gen.timedOut) => gen.result.finishReason = "timeout"

(***************************************************************************)
(* C16: once the onProgress callback of generateSudoku has returned false, *)
(* at a "grid" event or at a "puzzle" event, the callback is not invoked   *)
(* again and no further cell is placed or removed in that call.            *)
(***************************************************************************)
C16_NothingAfterGeneratorCallbackStop ==
    ~gen.calledAfterStop /\ ~gen.changedAfterStop

(***************************************************************************)
(* C17: solveSudoku and generateSudoku never let an exception reach the    *)
(* caller: when validation raises one (a region of the config names a      *)
(* coordinate outside the grid), the call still returns a result whose     *)
(* finishReason is "error" and which carries the message.                  *)
(***************************************************************************)
C17_ExceptionsBecomeErrorResults ==
    /\ (phase # "uncalled" /\ hist.raised) =>
          /\ phase = "done"
          /\ result.finishReason = "error"
          /\ result.failReason # ""
    /\ (gen.phase # "uncalled" /\ gen.phase # "idle" /\ gen.raised) =>
          /\ gen.phase = "done"
          /\ gen.result.finishReason = "error"
          /\ gen.result.errorMessage # ""

\* A solveSudoku call that has returned from its catch block.
C17_Witness ==
    /\ validateAllRegionsThrows(grid, config.regions)
    /\ phase = "done" /\ hist.raised
    /\ result.finishReason = "error"
    /\ result.failReason = TypeErrorMessage
    /\ \E p \in DOMAIN grid : grid[p].value # 0

\* A generateSudoku call that has returned from its catch block.
C17_GeneratorWitness ==
    /\ validateAllRegionsThrows(grid, config.regions)
    /\ gen.phase = "done" /\ gen.raised
    /\ gen.result.finishReason = "error"
    /\ gen.result.errorMessage = TypeErrorMessage


JigsawRegionsHolding(cfg, p) ==
    {i \in DOMAIN cfg.regions :
        cfg.regions[i].type = "jigsaw" /\ p \in Range(cfg.regions[i].cells)}

C19_SupportedJigsawRegionsTileGrid ==
    (calc.op = "supportsConfig" /\ calc.result.compatible)
        => \A p \in Positions(config.size) :
              Cardinality(JigsawRegionsHolding(config, p)) = 1


(***************************************************************************)
(* C20: validateVariantRulesCombination reports a list of rules as valid   *)
(* if and only if every rule supports the config and, for every pair of    *)
(* distinct rules A and B of the list, both A.isCompatibleWith(B) and      *)
(* B.isCompatibleWith(A) report compatible; a pair that is incompatible in *)
(* one direction only is reported whatever the order of the rules in the   *)
(* list.                                                                   *)
(***************************************************************************)
EveryRuleSupports(rules, cfg) ==
    \A a \in Range(rules) : supportsConfig(a, cfg).compatible

EveryPairCompatibleBothWays(rules, cfg) ==
    \A a, b \in Range(rules) :
        a # b => /\ isCompatibleWith(a, b, cfg).compatible
                 /\ isCompatibleWith(b, a, cfg).compatible

C20_ValidIffSupportedAndPairwiseCompatible ==
    calc.op = "validateVariantRulesCombination"
        => (calc.result.valid
               <=> /\ EveryRuleSupports(calc.rules, config)
                   /\ EveryPairCompatibleBothWays(calc.rules, config))

\* The list holds a pair that is incompatible in one direction only, the rule
\* that objects coming second, every rule supports the config, and the call
\* reported the list as invalid.
C20_Witness ==
    /\ calc.op = "validateVariantRulesCombination"
    /\ ~calc.result.valid
    /\ EveryRuleSupports(calc.rules, config)
    /\ \E i, j \in DOMAIN calc.rules :
          /\ i < j
          /\ isCompatibleWith(calc.rules[i], calc.rules[j], config).compatible
          /\ ~isCompatibleWith(calc.rules[j], calc.rules[i], config).compatible


(***************************************************************************)
(* Specification of a history manager used on its own: a manager created   *)
(* with a maxHistorySize, then at most MaxHistoryCalls calls of addHistory, *)
(* preparePastNavigate and prepareFutureNavigate in any order.  calc holds  *)
(* the last call, the number of calls made, and whether the addHistory      *)
(* found the stack full.                                                    *)
(***************************************************************************)
MaxHistoryLimit == 3

MaxHistoryCalls == 5

\* The states handed to the manager: cell (0,0) holding 1, 2 or 3.
HistoryStates == {[p \in {<<0, 0>>} |-> StateEntry(TRUE, v, TRUE, {})] : v \in 1 .. 3}

InitHistory ==
    /\ history \in {createHistoryManager(m) : m \in 0 .. MaxHistoryLimit}
    /\ calc = [op |-> "new", n |-> 0]
    /\ config = RowColConfig(2)
    /\ grid = createEmptyGrid(2)
    /\ options = ExhaustiveOptions("fastest")
    /\ phase = "idle"
    /\ context = NewContext
    /\ stack = <<>>
    /\ ret = "none"
    /\ expired = FALSE
    /\ result = NoResult
    /\ hist = NoHist
    /\ prevRun = NoPrevRun
    /\ gen = GenIdle
    /\ engine = NoEngine /\ cache = NoCache

historyFrame == <<config, grid, options, phase, context, stack, ret, expired, result,
                  hist, prevRun, gen, engine, cache>>

\* historyManager.addHistory(state)
AddHistoryCall ==
    /\ calc.n < MaxHistoryCalls
    /\ \E state \in HistoryStates :
          /\ history' = addHistory(history, state)
          /\ calc' = [op |-> "addHistory", n |-> calc.n + 1, state |-> state,
                      full |-> Len(history.past) >= history.maxHistorySize]
    /\ UNCHANGED historyFrame

\* historyManager.preparePastNavigate(currentState)
PreparePastNavigateCall ==
    /\ calc.n < MaxHistoryCalls
    /\ \E currentState \in HistoryStates :
          LET previousState == preparePastNavigate(history, currentState)
          IN /\ history' = previousState.history
             /\ calc' = [op |-> "preparePastNavigate", n |-> calc.n + 1,
                         found |-> previousState.found]
    /\ UNCHANGED historyFrame

\* historyManager.prepareFutureNavigate(currentState)
PrepareFutureNavigateCall ==
    /\ calc.n < MaxHistoryCalls
    /\ \E currentState \in HistoryStates :
          LET nextState == prepareFutureNavigate(history, currentState)
          IN /\ history' = nextState.history
             /\ calc' = [op |-> "prepareFutureNavigate", n |-> calc.n + 1,
                         found |-> nextState.found]
    /\ UNCHANGED historyFrame

NextHistory ==
    \/ AddHistoryCall
    \/ PreparePastNavigateCall
    \/ PrepareFutureNavigateCall

SpecHistory == InitHistory /\ [][NextHistory]_vars

(***************************************************************************)
(* Engine claims                                                           *)
(***************************************************************************)
DistinctRegionIds(regions) ==
    \A i, j \in DOMAIN regions : regions[i].id = regions[j].id => i = j

C27_DeadlineSeenGivesTimeout ==
    (phase = "done" /\ hist.deadlineSeen) =>
        /\ result.finishReason \notin {"solved", "no_solution"}
        /\ ~hist.stopped => result.finishReason = "timeout"

\* A search cut short by the deadline after it had recorded a solution.
C27_Witness ==
    /\ phase = "done"
    /\ hist.deadlineSeen /\ ~hist.stopped
    /\ result.finishReason = "timeout"
    /\ Len(result.solutions) >= 1


C30_UndoStackWithinLimit ==
    [][/\ Len(history'.past) <= history'.maxHistorySize
       /\ (calc'.op = "addHistory" /\ Len(history.past) >= history.maxHistorySize) =>
              history'.past = Append(Tail(history.past), deepCloneState(calc'.state))]_vars

\* The fifth call made on a manager of limit 2: an addHistory that finds the
\* stack full.
C30_Witness ==
    /\ calc.op = "addHistory" /\ calc.full
    /\ calc.n = 5
    /\ history.maxHistorySize = 2
    /\ Len(history.past) = 2

====
